---- MODULE Spec2Model ----
(***************************************************************************)
(* Alignment-debt ledger: lifecycle (debt_clearing.py), SLO aging          *)
(* (pipeline/debt_aging.py) and settlement against the policy-exception    *)
(* store (pipeline/settle_alignment_debt.py).                              *)
(*                                                                         *)
(* Conventions of the model                                                *)
(*  - Strings that the code searches with `in` (incident ids, test ids,    *)
(*    debt ids) are sequences of one-character strings, so that substring  *)
(*    matching is computed and not assumed.                                *)
(*  - Time is counted in whole days; a timestamp is the day it was taken.  *)
(*  - An Optional field is <<>> (None / key absent) or <<v>>.              *)
(*  - Debt amounts are integers in units of 1/10000, so 0.10 is 1000.      *)
(*  - evidence.regression_tests is kept as a set: the code builds it with  *)
(*    list(set(...)), whose order is not determined.                       *)
(***************************************************************************)
EXTENDS Integers, Sequences, FiniteSets, TLC

\* ------------------------------------------------------------------ bounds
MaxEntries == 2
MaxDay == 90
DayStep == 90
MaxAgeDay == 92
MaxAge == 95
MaxLedger == 7
FutureDays == 180
DecayStep == 90
MaxDecayDay == 450
MaxTests == 3

\* ------------------------------------------------- AgingConfig defaults
warning_days == 14
escalate_days == 30
block_days_critical == 45
block_days_high == 60
block_days_medium == 90

\* --------------------------------------------------------------- strings
IsSubstr(a, b) ==
    \E i \in 0..(Len(b) - Len(a)) : SubSeq(b, i + 1, i + Len(a)) = a

Digit(n) ==
    CASE n = 0 -> "0" [] n = 1 -> "1" [] n = 2 -> "2" [] n = 3 -> "3"
      [] n = 4 -> "4" [] n = 5 -> "5" [] n = 6 -> "6" [] n = 7 -> "7"
      [] n = 8 -> "8" [] OTHER -> "9"

\* strftime('%Y%m%d'): a fixed-width, zero-padded rendering of the day.
DateStr(day) ==
    << Digit((day \div 100) % 10), Digit((day \div 10) % 10), Digit(day % 10) >>

\* f"AD-{date}-{incident_id}"
MakeDebtId(day, incident_id) ==
    << "A", "D", "-" >> \o DateStr(day) \o << "-" >> \o incident_id

\* repr of one list element inside str(list): the id between quotes.
ReprItem(test_id) == << "'" >> \o test_id \o << "'" >>

\* `incident_id in str(regression_tests)`. An incident id holds no quote,
\* comma, space or bracket, so it lies in the list's text exactly when it lies
\* in the text of one element.
InStrOfList(incident_id, tests) ==
    \E t \in tests : IsSubstr(incident_id, ReprItem(t))

\* ---------------------------------------------------------------- inputs
INC_1 == << "I", "1" >>
INC_10 == << "I", "1", "0" >>
INC_7 == << "I", "7" >>
INC_9 == << "I", "9" >>
REG_I7 == << "R", "-", "I", "7" >>
REG_X == << "R", "-", "X" >>

\* The incident reports fed to create_debt_from_incident: INC_1 is a
\* substring of INC_10, and the second report's evidence names INC_7.
ReportCritical ==
    [ incident_id |-> INC_1, principle |-> "C3", severity |-> "critical",
      evidence |-> {} ]

ReportMedium ==
    [ incident_id |-> INC_10, principle |-> "C5", severity |-> "medium",
      evidence |-> { REG_I7 } ]

CreateInputs == { ReportCritical, ReportMedium }

\* Reports of the two severities the inputs above leave out; "low" is not
\* among the severities create_debt_from_incident names.
ReportHigh ==
    [ incident_id |-> INC_7, principle |-> "C4", severity |-> "high", evidence |-> {} ]

ReportLow ==
    [ incident_id |-> INC_9, principle |-> "C6", severity |-> "low", evidence |-> {} ]

AllReports == { ReportCritical, ReportHigh, ReportMedium, ReportLow }

\* Reports whose severity is none of critical, high, medium and low: a
\* string the code does not name, and None ("" here).
ReportUnrecognized ==
    [ incident_id |-> INC_9, principle |-> "C6", severity |-> "urgent", evidence |-> {} ]

ReportNoSeverity ==
    [ incident_id |-> INC_9, principle |-> "C6", severity |-> "", evidence |-> {} ]

\* The (incident_id, evidence) arguments given to mark_mitigated; no entry
\* references INC_9.
MitigateCalls ==
    { << INC_1, { REG_X } >>, << INC_7, {} >>, << INC_9, { REG_X } >> }

\* ------------------------------------------------------- float arithmetic
\* A Python float below 2 whose value is a multiple of 2^-58 is kept exactly,
\* as the integer value * 2^58 written in four limbs of 15 bits, lowest first.
LimbBase == 2^15

FloatZero == << 0, 0, 0, 0 >>

\* The doubles nearest to 0.10, 0.05 and 0.02, and 0.25 itself.
Float010 == << 26216, 19660, 6553, 819 >>
Float005 == << 13108, 26214, 19660, 409 >>
Float002 == << 5243, 3932, 27525, 163 >>
Float025 == << 0, 0, 0, 2048 >>

\* The float a debt_amount of the model (in 1/10000) stands for.
ToFloat(amount) ==
    CASE amount = 1000 -> Float010
      [] amount = 500 -> Float005
      [] amount = 200 -> Float002
      [] OTHER -> FloatZero

\* Exact sum of two limb numbers.
LimbAdd(a, b) ==
    LET s1 == a[1] + b[1]
        s2 == a[2] + b[2] + (s1 \div LimbBase)
        s3 == a[3] + b[3] + (s2 \div LimbBase)
        s4 == a[4] + b[4] + (s3 \div LimbBase)
    IN << s1 % LimbBase, s2 % LimbBase, s3 % LimbBase, s4 >>

\* Number of bits of a limb.
LimbBits(x) == IF x = 0 THEN 0 ELSE CHOOSE n \in 1..20 : 2^(n - 1) <= x /\ x < 2^n

\* Number of bits of a limb number.
BitLength(a) ==
    IF a[4] > 0 THEN 45 + LimbBits(a[4])
    ELSE IF a[3] > 0 THEN 30 + LimbBits(a[3])
    ELSE IF a[2] > 0 THEN 15 + LimbBits(a[2])
    ELSE LimbBits(a[1])

\* Rounding of an exact result to the 53 significant bits of a double, ties
\* to even.
RoundToDouble(a) ==
    IF BitLength(a) <= 53 THEN a
    ELSE LET unit == 2^(BitLength(a) - 53)
             rest == a[1] % unit
             odd == (a[1] \div unit) % 2 = 1
             down == [ a EXCEPT ![1] = a[1] - rest ]
         IN IF 2 * rest > unit \/ (2 * rest = unit /\ odd)
            THEN LimbAdd(down, << unit, 0, 0, 0 >>)
            ELSE down

\* a + b on floats
FloatAdd(a, b) == RoundToDouble(LimbAdd(a, b))

\* a >= b on floats
FloatGeq(a, b) ==
    \/ a[4] > b[4]
    \/ a[4] = b[4] /\ a[3] > b[3]
    \/ a[4] = b[4] /\ a[3] = b[3] /\ a[2] > b[2]
    \/ a[4] = b[4] /\ a[3] = b[3] /\ a[2] = b[2] /\ a[1] >= b[1]

\* round(x, 3), in thousandths: the integer nearest to x * 1000.
RoundMilli(a) ==
    LET c1 == (a[1] * 1000) \div LimbBase
        c2 == (a[2] * 1000 + c1) \div LimbBase
        c3 == (a[3] * 1000 + c2) \div LimbBase
    IN (a[4] * 1000 + c3 + 4096) \div 8192

\* ----------------------------------------------------------- the ledger
EmptySummary ==
    [ present |-> FALSE, total_active_debt |-> 0, debt_status |-> "OK",
      active_entries |-> 0, mitigated_entries |-> 0, last_updated |-> 0 ]

\* load_yaml / load_debt_ledger of a path that does not exist.
AbsentFile == [ exists |-> FALSE, entries |-> << >>, summary |-> EmptySummary ]

SeverityAmount(severity) ==
    CASE severity = "critical" -> 1000
      [] severity = "high" -> 500
      [] severity = "medium" -> 200
      [] OTHER -> 200

\* Mutant: accepted debt still counted as active.
IsActive_CountsAccepted(e) == e.mitigation_status # "mitigated"

IsActive(e) == e.mitigation_status \notin { "mitigated", "accepted" }

\* sum(...) over the active entries: float additions from the left, each
\* one rounded (the built-in sum of Python up to 3.11).
RECURSIVE SumFrom(_, _)
SumFrom(acc, es) ==
    IF es = << >> THEN acc
    ELSE SumFrom(IF IsActive(Head(es)) THEN FloatAdd(acc, ToFloat(Head(es).debt_amount))
                 ELSE acc,
                 Tail(es))

SumAmounts(es) == SumFrom(FloatZero, es)

RECURSIVE CountWhere(_, _)
CountWhere(es, status_set) ==
    IF es = << >> THEN 0
    ELSE (IF Head(es).mitigation_status \in status_set THEN 1 ELSE 0)
         + CountWhere(Tail(es), status_set)

ActiveCount(es) == Len(es) - CountWhere(es, { "mitigated", "accepted" })

DebtStatusOf(total) ==
    IF FloatGeq(total, Float025) THEN "BLOCK"
    ELSE IF FloatGeq(total, Float010) THEN "WARN"
    ELSE "OK"

RecalculateSummary(es, day) ==
    [ present |-> TRUE,
      total_active_debt |-> 10 * RoundMilli(SumAmounts(es)),
      debt_status |-> DebtStatusOf(SumAmounts(es)),
      active_entries |-> ActiveCount(es),
      mitigated_entries |-> CountWhere(es, { "mitigated" }),
      last_updated |-> day ]

\* Mutant: only a critical incident blocks release.
NewEntry_BlocksOnlyCritical(inp, day) ==
    [ debt_id |-> MakeDebtId(day, inp.incident_id),
      status |-> "active",
      created_at |-> day,
      principle |-> inp.principle,
      severity |-> inp.severity,
      debt_amount |-> SeverityAmount(inp.severity),
      blocks_release |-> inp.severity = "critical",
      source_incident |-> inp.incident_id,
      regression_tests |-> inp.evidence,
      mitigation_verified_at |-> << >>,
      mitigation_status |-> "open",
      mitigated_at |-> << >>,
      mitigated_by |-> << >>,
      risk_acceptance |-> << >>,
      mitigated_by_incident |-> << >>,
      verified_in_run |-> << >>,
      block_reason |-> << >> ]

NewEntry(inp, day) ==
    [ debt_id |-> MakeDebtId(day, inp.incident_id),
      status |-> "active",
      created_at |-> day,
      principle |-> inp.principle,
      severity |-> inp.severity,
      debt_amount |-> SeverityAmount(inp.severity),
      blocks_release |-> inp.severity \in { "critical", "high" },
      source_incident |-> inp.incident_id,
      regression_tests |-> inp.evidence,
      mitigation_verified_at |-> << >>,
      mitigation_status |-> "open",
      mitigated_at |-> << >>,
      mitigated_by |-> << >>,
      risk_acceptance |-> << >>,
      mitigated_by_incident |-> << >>,
      verified_in_run |-> << >>,
      block_reason |-> << >> ]

\* Mutant: the new entry replaces the ledger's entries.
CreateDebt_ReplacesLedger(file, inp, day) ==
    LET es == << NewEntry(inp, day) >>
    IN [ exists |-> TRUE, entries |-> es, summary |-> RecalculateSummary(es, day) ]

\* create_debt_from_incident: the ledger it saves.
CreateDebt(file, inp, day) ==
    LET es == Append(file.entries, NewEntry(inp, day))
    IN [ exists |-> TRUE, entries |-> es, summary |-> RecalculateSummary(es, day) ]

\* The match test of mark_mitigated's loop.
MitigateMatch(e, incident_id) ==
    \/ IsSubstr(incident_id, e.debt_id)
    \/ InStrOfList(incident_id, e.regression_tests)

\* Mutant: mitigation clears the entry's amount.
MitigateEntry_ZeroesAmount(e, evidence, mitigated_by, day) ==
    [ e EXCEPT !.mitigation_status = "mitigated",
               !.mitigated_at = << day >>,
               !.mitigated_by = << mitigated_by >>,
               !.blocks_release = FALSE,
               !.debt_amount = 0,
               !.regression_tests = e.regression_tests \cup evidence,
               !.mitigation_verified_at = << day >> ]

\* Mutant: the new evidence replaces the entry's regression tests.
MitigateEntry_ReplacesEvidence(e, evidence, mitigated_by, day) ==
    [ e EXCEPT !.mitigation_status = "mitigated",
               !.mitigated_at = << day >>,
               !.mitigated_by = << mitigated_by >>,
               !.blocks_release = FALSE,
               !.regression_tests = evidence,
               !.mitigation_verified_at = << day >> ]

MitigateEntry(e, evidence, mitigated_by, day) ==
    [ e EXCEPT !.mitigation_status = "mitigated",
               !.mitigated_at = << day >>,
               !.mitigated_by = << mitigated_by >>,
               !.blocks_release = FALSE,
               !.regression_tests = e.regression_tests \cup evidence,
               !.mitigation_verified_at = << day >> ]

\* Mutant: the loop takes the first matching entry, mitigated or not.
MitigateTarget_IgnoresStatus(es, incident_id) ==
    LET hits == { i \in 1..Len(es) : MitigateMatch(es[i], incident_id) }
    IN IF hits = {} THEN 0 ELSE CHOOSE i \in hits : \A j \in hits : i <= j

\* Index of the entry mark_mitigated updates, 0 when its loop finds none.
MitigateTarget(es, incident_id) ==
    LET hits == { i \in 1..Len(es) :
                    /\ MitigateMatch(es[i], incident_id)
                    /\ es[i].mitigation_status # "mitigated" }
    IN IF hits = {} THEN 0 ELSE CHOOSE i \in hits : \A j \in hits : i <= j

\* mark_mitigated: the ledger it leaves on disk (unchanged when nothing matched).
MarkMitigated(file, incident_id, evidence, mitigated_by, day) ==
    LET k == MitigateTarget(file.entries, incident_id)
    IN IF k = 0 THEN file
       ELSE LET es == [ file.entries EXCEPT
                          ![k] = MitigateEntry(file.entries[k], evidence, mitigated_by, day) ]
            IN [ exists |-> TRUE, entries |-> es, summary |-> RecalculateSummary(es, day) ]

\* mark_mitigated's return value: the updated entry, or {} (here << >>).
MarkMitigatedReturn(file, incident_id, evidence, mitigated_by, day) ==
    LET k == MitigateTarget(file.entries, incident_id)
    IN IF k = 0 THEN << >>
       ELSE << MitigateEntry(file.entries[k], evidence, mitigated_by, day) >>

\* Mutant: acceptance leaves blocks_release as it was.
AcceptEntry_KeepsBlocking(e, approved_by, expires, day) ==
    [ e EXCEPT !.mitigation_status = "accepted",
               !.risk_acceptance = << [ approved_by |-> approved_by,
                                        approved_at |-> day,
                                        expires |-> expires ] >> ]

AcceptEntry(e, approved_by, expires, day) ==
    [ e EXCEPT !.mitigation_status = "accepted",
               !.blocks_release = FALSE,
               !.risk_acceptance = << [ approved_by |-> approved_by,
                                        approved_at |-> day,
                                        expires |-> expires ] >> ]

\* Index of the entry mark_accepted updates, 0 when no debt_id is equal.
AcceptTarget(es, debt_id) ==
    LET hits == { i \in 1..Len(es) : es[i].debt_id = debt_id }
    IN IF hits = {} THEN 0 ELSE CHOOSE i \in hits : \A j \in hits : i <= j

\* mark_accepted: the ledger it leaves on disk.
MarkAccepted(file, debt_id, approved_by, expires, day) ==
    LET k == AcceptTarget(file.entries, debt_id)
    IN IF k = 0 THEN file
       ELSE LET es == [ file.entries EXCEPT
                          ![k] = AcceptEntry(file.entries[k], approved_by, expires, day) ]
            IN [ exists |-> TRUE, entries |-> es, summary |-> RecalculateSummary(es, day) ]

\* mark_accepted's return value: the updated entry, or {} (here << >>).
MarkAcceptedReturn(file, debt_id, approved_by, expires, day) ==
    LET k == AcceptTarget(file.entries, debt_id)
    IN IF k = 0 THEN << >>
       ELSE << AcceptEntry(file.entries[k], approved_by, expires, day) >>

\* ------------------------------------------------------------- SLO aging
\* calculate_age_days: (now - created).days
AgeDays(created_at, day) == day - created_at

\* AgingConfig(): the thresholds main, analyze and enforce run with.
DefaultConfig ==
    [ warning_days |-> warning_days,
      escalate_days |-> escalate_days,
      block_days_critical |-> block_days_critical,
      block_days_high |-> block_days_high,
      block_days_medium |-> block_days_medium ]

\* The block threshold get_slo_status picks for a severity.
BlockThreshold(severity, config) ==
    IF severity = "critical" THEN config.block_days_critical
    ELSE IF severity = "high" THEN config.block_days_high
    ELSE config.block_days_medium

\* Mutant: days_until_block is reported as computed, also once blocked.
GetSloStatus_ReportsOverdue(age_days, severity, config) ==
    LET block_threshold == BlockThreshold(severity, config)
        days_until_block == block_threshold - age_days
    IN IF age_days >= block_threshold
       THEN [ status |-> "block", days_until_block |-> days_until_block ]
       ELSE IF age_days >= config.escalate_days
            THEN [ status |-> "escalate", days_until_block |-> days_until_block ]
       ELSE IF age_days >= config.warning_days
            THEN [ status |-> "warning", days_until_block |-> days_until_block ]
       ELSE [ status |-> "ok", days_until_block |-> days_until_block ]

\* get_slo_status: (status, days_until_block)
GetSloStatus(age_days, severity, config) ==
    LET block_threshold == BlockThreshold(severity, config)
        days_until_block == block_threshold - age_days
    IN IF age_days >= block_threshold THEN [ status |-> "block", days_until_block |-> 0 ]
       ELSE IF age_days >= config.escalate_days
            THEN [ status |-> "escalate", days_until_block |-> days_until_block ]
       ELSE IF age_days >= config.warning_days
            THEN [ status |-> "warning", days_until_block |-> days_until_block ]
       ELSE [ status |-> "ok", days_until_block |-> days_until_block ]

\* Mutant: the sweep skips mitigated entries only.
AgingSkips_OnlyMitigated(e) == e.mitigation_status = "mitigated"

\* The entries analyze_debt_aging and enforce_aging_blocks skip.
AgingSkips(e) == e.mitigation_status \in { "mitigated", "accepted" }

\* analyze_debt_aging: the SLO status of every entry it reports, in order.
RECURSIVE AnalyzeDebtAging(_, _)
AnalyzeDebtAging(es, day) ==
    IF es = << >> THEN << >>
    ELSE LET e == Head(es)
             rest == AnalyzeDebtAging(Tail(es), day)
         IN IF AgingSkips(e) THEN rest
            ELSE << [ debt_id |-> e.debt_id,
                      age_days |-> AgeDays(e.created_at, day),
                      slo_status |-> GetSloStatus(AgeDays(e.created_at, day), e.severity, DefaultConfig).status,
                      days_until_block |->
                          GetSloStatus(AgeDays(e.created_at, day), e.severity, DefaultConfig).days_until_block ] >>
                 \o rest

\* Mutant: the loop body does not look at blocks_release.
EnforceHits_IgnoresFlag(e, day) ==
    /\ ~AgingSkips(e)
    /\ GetSloStatus(AgeDays(e.created_at, day), e.severity, DefaultConfig).status = "block"

\* Mutant: the loop body also acts on an accepted entry whose acceptance has
\* expired.
EnforceHits_ExpiredAcceptance(e, day) ==
    /\ \/ ~AgingSkips(e)
       \/ /\ e.mitigation_status = "accepted"
          /\ e.risk_acceptance # << >>
          /\ e.risk_acceptance[1].expires <= day
    /\ GetSloStatus(AgeDays(e.created_at, day), e.severity, DefaultConfig).status = "block"
    /\ ~e.blocks_release

\* Mutant: the loop body acts on critical entries only.
EnforceHits_CriticalOnly(e, day) ==
    /\ ~AgingSkips(e)
    /\ e.severity = "critical"
    /\ GetSloStatus(AgeDays(e.created_at, day), e.severity, DefaultConfig).status = "block"
    /\ ~e.blocks_release

\* The test of enforce_aging_blocks' loop body.
EnforceHits(e, day) ==
    /\ ~AgingSkips(e)
    /\ GetSloStatus(AgeDays(e.created_at, day), e.severity, DefaultConfig).status = "block"
    /\ ~e.blocks_release

\* Mutant: the loop body records the reason and leaves blocks_release alone.
EnforceEntry_OnlyRecordsReason(e, day) ==
    IF EnforceHits(e, day)
    THEN [ e EXCEPT !.block_reason = << AgeDays(e.created_at, day) >> ]
    ELSE e

\* Mutant: the loop body also records the entry as overdue.
EnforceEntry_MarksOverdue(e, day) ==
    IF EnforceHits(e, day)
    THEN [ e EXCEPT !.blocks_release = TRUE,
                    !.mitigation_status = "overdue",
                    !.block_reason = << AgeDays(e.created_at, day) >> ]
    ELSE e

EnforceEntry(e, day) ==
    IF EnforceHits(e, day)
    THEN [ e EXCEPT !.blocks_release = TRUE,
                    !.block_reason = << AgeDays(e.created_at, day) >> ]
    ELSE e

\* enforce_aging_blocks: the entries after its loop, and its return value.
EnforceAgingBlocks(es, day) ==
    [ entries |-> [ i \in 1..Len(es) |-> EnforceEntry(es[i], day) ],
      updated |-> Cardinality({ i \in 1..Len(es) : EnforceHits(es[i], day) }) ]

\* The exit code at the end of debt_aging.main.
AgingExitCode(aging) ==
    IF \E i \in 1..Len(aging) : aging[i].slo_status = "block" THEN 2
    ELSE IF \E i \in 1..Len(aging) : aging[i].slo_status \in { "block", "escalate" } THEN 1
    ELSE 0

\* ------------------------------------------------------------ settlement
\* The replay-verification documents handed to settle_debt.
Replays ==
    { [ incident_id |-> INC_1, verification_run_id |-> "run-1",
        verified_mitigations |-> << >> ],
      [ incident_id |-> INC_1, verification_run_id |-> "run-2",
        verified_mitigations |-> << [ principle |-> "C5", status |-> "fail" ],
                                    [ principle |-> "C3", status |-> "pass" ] >> ] }

\* A wider choice of replay documents: the two above, one whose mitigations
\* all failed or were skipped, one that passes C5 alone and one that passes
\* both principles.
SettleReplays ==
    Replays \cup
    { [ incident_id |-> INC_1, verification_run_id |-> "run-3",
        verified_mitigations |-> << [ principle |-> "C3", status |-> "fail" ],
                                    [ principle |-> "C5", status |-> "skipped" ] >> ],
      [ incident_id |-> INC_10, verification_run_id |-> "run-4",
        verified_mitigations |-> << [ principle |-> "C5", status |-> "pass" ] >> ],
      [ incident_id |-> INC_10, verification_run_id |-> "run-5",
        verified_mitigations |-> << [ principle |-> "C3", status |-> "pass" ],
                                    [ principle |-> "C5", status |-> "pass" ] >> ] }

\* Mutant: every verified mitigation counts, whatever its status.
GetMitigatedPrinciples_AnyStatus(replay) ==
    { replay.verified_mitigations[i].principle : i \in 1..Len(replay.verified_mitigations) }

GetMitigatedPrinciples(replay) ==
    { replay.verified_mitigations[i].principle :
        i \in { j \in 1..Len(replay.verified_mitigations) :
                  replay.verified_mitigations[j].status = "pass" } }

\* Mutant: the loop body does not look at mitigation_status.
SettleHits_AnyStatus(e, mitigated) == e.principle \in mitigated

\* Mutant: the loop body acts on every entry that is not accepted.
SettleHits_NotAccepted(e, mitigated) ==
    e.principle \in mitigated /\ e.mitigation_status # "accepted"

\* The test of update_debt_ledger's loop body.
SettleHits(e, mitigated) ==
    e.principle \in mitigated /\ e.mitigation_status = "open"

SettleEntry(e, mitigated, incident_id, run_id, day) ==
    IF SettleHits(e, mitigated)
    THEN [ e EXCEPT !.mitigation_status = "mitigated",
                    !.mitigated_by_incident = << incident_id >>,
                    !.verified_in_run = << run_id >>,
                    !.mitigated_at = << day >>,
                    !.blocks_release = FALSE ]
    ELSE e

\* The summary update at the end of update_debt_ledger.
SettleSummary(summary, es, day) ==
    IF summary.present
    THEN [ summary EXCEPT !.active_entries = ActiveCount(es),
                          !.mitigated_entries = CountWhere(es, { "mitigated" }),
                          !.last_updated = day ]
    ELSE summary

\* update_debt_ledger: the ledger document after it, and its return value.
UpdateDebtLedger(file, mitigated, incident_id, run_id, day) ==
    LET es == [ i \in 1..Len(file.entries) |->
                  SettleEntry(file.entries[i], mitigated, incident_id, run_id, day) ]
    IN [ file |-> [ exists |-> TRUE, entries |-> es,
                    summary |-> SettleSummary(file.summary, es, day) ],
         updated |-> Cardinality({ i \in 1..Len(file.entries) :
                                     SettleHits(file.entries[i], mitigated) }) ]

\* The policy-exception store: its exceptions and its audit_log.
AbsentStore == [ exists |-> FALSE, exceptions |-> << >>, audit_log |-> << >> ]

\* The store as it stands before the first settlement.
InitialStore ==
    [ exists |-> TRUE,
      exceptions |-> << [ id |-> "EX-1", principle |-> "C3" ],
                        [ id |-> "EX-2", principle |-> "C5" ],
                        [ id |-> "EX-3", principle |-> "C3" ] >>,
      audit_log |-> << >> ]

\* Mutant: the first exception is dropped whatever its principle.
KeepExceptions_DropsFirst(xs, mitigated) ==
    IF xs = << >> THEN << >>
    ELSE SelectSeq(Tail(xs), LAMBDA x : x.principle \notin mitigated)

\* The list comprehension of update_policy_exceptions.
RECURSIVE KeepExceptions(_, _)
KeepExceptions(xs, mitigated) ==
    IF xs = << >> THEN << >>
    ELSE IF Head(xs).principle \notin mitigated
         THEN << Head(xs) >> \o KeepExceptions(Tail(xs), mitigated)
         ELSE KeepExceptions(Tail(xs), mitigated)

\* Mutant: the audit record is appended whether or not anything was removed.
UpdatePolicyExceptions_AlwaysLogs(store, mitigated, day) ==
    LET before == Len(store.exceptions)
        kept == KeepExceptions(store.exceptions, mitigated)
        after == Len(kept)
    IN [ store |-> [ exists |-> TRUE, exceptions |-> kept,
                     audit_log |->
                         Append(store.audit_log,
                                [ action |-> "exceptions_removed",
                                  count |-> before - after,
                                  principles |-> mitigated,
                                  timestamp |-> day ]) ],
         removed |-> before - after ]

\* update_policy_exceptions: the store document after it, and its return value.
UpdatePolicyExceptions(store, mitigated, day) ==
    LET before == Len(store.exceptions)
        kept == KeepExceptions(store.exceptions, mitigated)
        after == Len(kept)
    IN [ store |-> [ exists |-> TRUE, exceptions |-> kept,
                     audit_log |->
                         IF before > after
                         THEN Append(store.audit_log,
                                     [ action |-> "exceptions_removed",
                                       count |-> before - after,
                                       principles |-> mitigated,
                                       timestamp |-> day ])
                         ELSE store.audit_log ],
         removed |-> before - after ]

\* debt_aging.main: the ledger it leaves on disk, the count enforce
\* returned (0 when enforce did not run) and the exit code.
AgingMainRun(file, enforce, day) ==
    LET aging == AnalyzeDebtAging(file.entries, day)
        r == EnforceAgingBlocks(file.entries, day)
        ran == enforce /\ aging # << >>
    IN [ file |-> IF ran /\ r.updated > 0
                  THEN [ file EXCEPT !.exists = TRUE, !.entries = r.entries ]
                  ELSE file,
         updated |-> IF ran THEN r.updated ELSE 0,
         exit_code |-> AgingExitCode(aging) ]

\* A created_at string parse_timestamp raises ValueError on; every other
\* created_at is the day the string names.
MalformedTimestamp == -1

\* parse_timestamp: << the day >>, or << >> when it raises ValueError.
ParseTimestamp(ts) == IF ts = MalformedTimestamp THEN << >> ELSE << ts >>

\* The first entry at which the loop of analyze_debt_aging, and of
\* enforce_aging_blocks, raises: the first one that is not skipped and whose
\* created_at does not parse; 0 when the loop completes.
FirstRaising(es) ==
    LET raising == { i \in 1..Len(es) :
                       ~AgingSkips(es[i]) /\ ParseTimestamp(es[i].created_at) = << >> }
    IN IF raising = {} THEN 0
       ELSE CHOOSE i \in raising : \A j \in raising : i <= j

\* analyze_debt_aging on any ledger: the list it returns, or the ValueError of
\* calculate_age_days, which it does not catch.
AnalyzeSweep(es, day) ==
    IF FirstRaising(es) # 0
    THEN [ raised |-> TRUE, aging |-> << >> ]
    ELSE [ raised |-> FALSE, aging |-> AnalyzeDebtAging(es, day) ]

\* enforce_aging_blocks on any ledger: the entries it leaves in the ledger
\* passed in and its return value, or the ValueError, raised after the
\* entries before the malformed one have been updated in place.
EnforceSweep(es, day) ==
    LET k == FirstRaising(es)
    IN IF k # 0
       THEN [ raised |-> TRUE,
              entries |-> [ i \in 1..Len(es) |->
                              IF i < k THEN EnforceEntry(es[i], day) ELSE es[i] ],
              updated |-> 0 ]
       ELSE [ raised |-> FALSE,
              entries |-> EnforceAgingBlocks(es, day).entries,
              updated |-> EnforceAgingBlocks(es, day).updated ]

\* debt_aging.main on any ledger: analyze_debt_aging comes first, and its
\* ValueError ends the process with status 1 and the file as it was.
AgingMainOutcome(file, enforce, day) ==
    IF AnalyzeSweep(file.entries, day).raised
    THEN [ file |-> file, raised |-> TRUE, exit_code |-> 1 ]
    ELSE [ file |-> AgingMainRun(file, enforce, day).file,
           raised |-> FALSE,
           exit_code |-> AgingMainRun(file, enforce, day).exit_code ]

\* What settle_debt hands to its caller: the returned dict, or status
\* "raised" when an exception of save_yaml propagates out of it.
SettleReturn(status, mitigated, debts_updated, exceptions_removed, dry_run) ==
    [ status |-> status, mitigated_principles |-> mitigated,
      debts_updated |-> debts_updated, exceptions_removed |-> exceptions_removed,
      dry_run |-> dry_run ]

\* The save_yaml call of settle_debt that raises: "none", "ledger" (the first)
\* or "exceptions" (the second). A save that raises leaves its file as it was.
SettleFaults == { "none", "ledger", "exceptions" }

\* Mutant: the saves are not guarded by dry_run.
SettleDebt_DryRunSaves(file, store, replay, dry_run, fault, day) ==
    LET mitigated == GetMitigatedPrinciples(replay)
        d == UpdateDebtLedger(file, mitigated, replay.incident_id,
                              replay.verification_run_id, day)
        x == UpdatePolicyExceptions(store, mitigated, day)
    IN IF mitigated = {}
       THEN [ file |-> file, store |-> store,
              ret |-> SettleReturn("no_action", {}, 0, 0, dry_run) ]
       ELSE IF fault = "ledger"
       THEN [ file |-> file, store |-> store,
              ret |-> SettleReturn("raised", {}, 0, 0, dry_run) ]
       ELSE IF fault = "exceptions"
       THEN [ file |-> d.file, store |-> store,
              ret |-> SettleReturn("raised", {}, 0, 0, dry_run) ]
       ELSE [ file |-> d.file, store |-> x.store,
              ret |-> SettleReturn("success", mitigated, d.updated, x.removed, dry_run) ]

\* settle_debt: both stores as it leaves them, and what the caller receives.
SettleDebt(file, store, replay, dry_run, fault, day) ==
    LET mitigated == GetMitigatedPrinciples(replay)
        d == UpdateDebtLedger(file, mitigated, replay.incident_id,
                              replay.verification_run_id, day)
        x == UpdatePolicyExceptions(store, mitigated, day)
    IN IF mitigated = {}
       THEN [ file |-> file, store |-> store,
              ret |-> SettleReturn("no_action", {}, 0, 0, dry_run) ]
       ELSE IF dry_run
       THEN [ file |-> file, store |-> store,
              ret |-> SettleReturn("success", mitigated, d.updated, x.removed, TRUE) ]
       ELSE IF fault = "ledger"
       THEN [ file |-> file, store |-> store,
              ret |-> SettleReturn("raised", {}, 0, 0, FALSE) ]
       ELSE IF fault = "exceptions"
       THEN [ file |-> d.file, store |-> store,
              ret |-> SettleReturn("raised", {}, 0, 0, FALSE) ]
       ELSE [ file |-> d.file, store |-> x.store,
              ret |-> SettleReturn("success", mitigated, d.updated, x.removed, FALSE) ]

\* ------------------------------------------------ regression-test decay
\* Relevance scores are held in millionths: 1.0 is Micro.
Micro == 1000000

\* The defaults of RegressionDecayManager.__init__; the threshold in millionths.
half_life_days == 90
retirement_threshold == 100000
min_triggers_for_retirement == 5

\* A timestamp string: one datetime.fromisoformat accepts, holding its day,
\* or one it rejects.
Stamp(day) == [ iso |-> TRUE, day |-> day ]

MalformedStamp == [ iso |-> FALSE, day |-> 0 ]

\* datetime.fromisoformat(s.replace('Z', '+00:00')): << the day >>, or << >>
\* when it raises.
FromIsoformat(stamp) == IF stamp.iso THEN << stamp.day >> ELSE << >>

\* floor(Micro * 0.5 ^ (r / 90)) for r = 0 .. 89.
PowHalfTable ==
    << 1000000, 992327, 984714, 977159, 969663, 962223, 954841, 947516, 940246, 933032,
       925874, 918771, 911722, 904727, 897786, 890898, 884063, 877281, 870550, 863871,
       857243, 850667, 844140, 837664, 831237, 824860, 818532, 812252, 806020, 799836,
       793700, 787611, 781568, 775572, 769622, 763717, 757858, 752043, 746274, 740548,
       734867, 729229, 723634, 718082, 712573, 707106, 701681, 696298, 690956, 685655,
       680395, 675174, 669994, 664854, 659753, 654692, 649669, 644685, 639739, 634830,
       629960, 625127, 620331, 615572, 610849, 606163, 601512, 596897, 592318, 587773,
       583264, 578789, 574349, 569942, 565570, 561231, 556925, 552652, 548412, 544205,
       540029, 535886, 531775, 527695, 523647, 519629, 515642, 511686, 507761, 503865 >>

\* math.pow(0.5, days_elapsed / self.half_life), for the half life of 90 days.
PowHalf(days_elapsed) ==
    LET q == days_elapsed \div half_life_days
        t == PowHalfTable[(days_elapsed % half_life_days) + 1]
    IN IF q >= 0 THEN (IF q > 20 THEN 0 ELSE t \div 2^q) ELSE t * 2^(0 - q)

\* severity_mult, in tenths.
SeverityMult(severity) ==
    CASE severity = "critical" -> 15
      [] severity = "high" -> 12
      [] severity = "medium" -> 10
      [] severity = "low" -> 8
      [] OTHER -> 10

\* source_mult, in tenths.
SourceMult(source) ==
    CASE source = "incident" -> 13
      [] source = "near_miss" -> 12
      [] source = "red_team" -> 10
      [] source = "manual" -> 9
      [] OTHER -> 10

Min(a, b) == IF a <= b THEN a ELSE b

\* Mutant: the bonus is capped at 0.05.
TriggerBonus_CappedLow(trigger_count) ==
    Min(trigger_count * (Micro \div 10), Micro \div 20)

\* trigger_bonus = min(test.trigger_count / 10, 0.3)
TriggerBonus(trigger_count) == Min(trigger_count * (Micro \div 10), 3 * (Micro \div 10))

\* Mutant: the elapsed time is measured from the current time to the
\* reference date.
DaysElapsed_FromNowToReference(test, day) ==
    LET reference_date == IF test.last_triggered # << >> THEN test.last_triggered[1]
                          ELSE test.created_at
        ref == FromIsoformat(reference_date)
    IN IF ref = << >> THEN 0 ELSE ref[1] - day

\* Mutant: a timestamp that does not parse counts as a year old.
DaysElapsed_MalformedIsOld(test, day) ==
    LET reference_date == IF test.last_triggered # << >> THEN test.last_triggered[1]
                          ELSE test.created_at
        ref == FromIsoformat(reference_date)
    IN IF ref = << >> THEN 365 ELSE day - ref[1]

\* days_elapsed of compute_relevance: measured from last_triggered or, without
\* one, from created_at; 0 when parsing the reference date raises.
DaysElapsed(test, day) ==
    LET reference_date == IF test.last_triggered # << >> THEN test.last_triggered[1]
                          ELSE test.created_at
        ref == FromIsoformat(reference_date)
    IN IF ref = << >> THEN 0 ELSE day - ref[1]

\* RegressionDecayManager.compute_relevance
ComputeRelevance(test, day) ==
    Min((PowHalf(DaysElapsed(test, day)) * SeverityMult(test.severity)
            * SourceMult(test.source)) \div 100
          + TriggerBonus(test.trigger_count),
        Micro)

\* RegressionTest(test_id, created_at, source, ...) with the dataclass defaults.
RegressionTest(test_id, created_at, source, last_triggered, trigger_count, severity) ==
    [ test_id |-> test_id, created_at |-> created_at, source |-> source,
      last_triggered |-> last_triggered, trigger_count |-> trigger_count,
      severity |-> severity, relevance_score |-> Micro,
      retirement_reason |-> << >>, retired_at |-> << >> ]

\* RegressionDecayManager.add_test: self.tests[test.test_id] = test. The dict
\* is a sequence in insertion order; a key already there keeps its place.
AddTest(tests, test) ==
    IF \E i \in 1..Len(tests) : tests[i].test_id = test.test_id
    THEN [ i \in 1..Len(tests) |->
             IF tests[i].test_id = test.test_id THEN test ELSE tests[i] ]
    ELSE Append(tests, test)

\* RegressionDecayManager.update_relevance_scores
UpdateRelevanceScores(tests, day) ==
    [ i \in 1..Len(tests) |->
        IF tests[i].retired_at = << >>
        THEN [ tests[i] EXCEPT !.relevance_score = ComputeRelevance(tests[i], day) ]
        ELSE tests[i] ]

\* sorted(candidates, key=lambda t: t.relevance_score): a stable sort.
RECURSIVE SortedByRelevance(_)
SortedByRelevance(ts) ==
    IF ts = << >> THEN << >>
    ELSE LET rest == SortedByRelevance(SubSeq(ts, 1, Len(ts) - 1))
             t == ts[Len(ts)]
             k == Cardinality({ i \in 1..Len(rest) :
                                  rest[i].relevance_score <= t.relevance_score })
         IN SubSeq(rest, 1, k) \o << t >> \o SubSeq(rest, k + 1, Len(rest))

\* Mutant: a test qualifies only with more triggers than the minimum.
Qualifies_MoreThanMinimum(m, test) ==
    /\ test.relevance_score < m.retirement_threshold
    /\ test.trigger_count > m.min_triggers

\* The test of get_retirement_candidates and of should_retire.
Qualifies(m, test) ==
    /\ test.relevance_score < m.retirement_threshold
    /\ test.trigger_count >= m.min_triggers

\* RegressionDecayManager.get_retirement_candidates: the registry after the
\* scores are recomputed, and the list returned.
GetRetirementCandidates(m, day) ==
    LET updated == UpdateRelevanceScores(m.tests, day)
    IN [ tests |-> updated,
         candidates |-> SortedByRelevance(
             SelectSeq(updated, LAMBDA t : t.retired_at = << >> /\ Qualifies(m, t))) ]

\* RegressionDecayManager.should_retire
ShouldRetire(m, test) ==
    IF Qualifies(m, test) THEN << "low_relevance" >> ELSE << >>

\* RegressionDecayManager.retire_test
RetireTest(tests, test_id, reason, day) ==
    [ i \in 1..Len(tests) |->
        IF tests[i].test_id = test_id
        THEN [ tests[i] EXCEPT !.retired_at = << day >>, !.retirement_reason = << reason >> ]
        ELSE tests[i] ]

\* Mutant: only the first candidate is retired.
RECURSIVE RetireAll_FirstOnly(_, _, _, _)
RetireAll_FirstOnly(m, tests, candidates, day) ==
    IF candidates = << >> THEN tests
    ELSE LET reason == ShouldRetire(m, Head(candidates))
         IN IF reason # << >>
            THEN RetireTest(tests, Head(candidates).test_id, reason[1], day)
            ELSE tests

\* The loop of auto_retirement_policy over the candidates.
RECURSIVE RetireAll(_, _, _, _)
RetireAll(m, tests, candidates, day) ==
    IF candidates = << >> THEN tests
    ELSE LET reason == ShouldRetire(m, Head(candidates))
         IN RetireAll(m,
                      IF reason # << >>
                      THEN RetireTest(tests, Head(candidates).test_id, reason[1], day)
                      ELSE tests,
                      Tail(candidates), day)

\* RegressionDecayManager.auto_retirement_policy: the registry it leaves and
\* the test_ids of the actions it returns.
AutoRetirementPolicy(m, day) ==
    LET c == GetRetirementCandidates(m, day)
    IN [ tests |-> RetireAll(m, c.tests, c.candidates, day),
         actions |-> [ i \in 1..Len(c.candidates) |-> c.candidates[i].test_id ] ]

\* Mutant: a retired test is reactivated whatever the signal says.
Reactivates_IgnoresSignal(test, traffic_replay_fn) ==
    /\ test.retired_at # << >>
    /\ traffic_replay_fn # << >>

\* quarterly_revalidation reactivates the test: it is retired, a function was
\* passed, and the function returns true for it. The function is given by the
\* test_ids it returns true for; << >> is None.
Reactivates(test, traffic_replay_fn) ==
    /\ test.retired_at # << >>
    /\ traffic_replay_fn # << >>
    /\ test.test_id \in traffic_replay_fn[1]

\* RegressionDecayManager.quarterly_revalidation
QuarterlyRevalidation(tests, traffic_replay_fn) ==
    [ tests |-> [ i \in 1..Len(tests) |->
                    IF Reactivates(tests[i], traffic_replay_fn)
                    THEN [ tests[i] EXCEPT !.retired_at = << >>,
                                           !.retirement_reason = << >>,
                                           !.relevance_score = Micro \div 2 ]
                    ELSE tests[i] ],
      reviewed |-> Cardinality({ i \in 1..Len(tests) : tests[i].retired_at # << >> }),
      reactivated |-> { tests[i].test_id : i \in
                          { j \in 1..Len(tests) : Reactivates(tests[j], traffic_replay_fn) } } ]

\* ----------------------------------------------------------------- state
VARIABLES
    now,             \* the current day (datetime.utcnow())
    ledgerFile,      \* alignment_debt.yaml as persisted
    exceptionStore,  \* policy_exception.yaml as persisted
    conc,            \* per worker process: where it is in its call, the call,
                     \* and the documents it loaded
    probe,           \* a direct call of a pure function: its arguments and,
                     \* once it has returned, its return value
    manager          \* the RegressionDecayManager: its thresholds and registry

vars == << now, ledgerFile, exceptionStore, conc, probe, manager >>

\* RegressionDecayManager(): the default thresholds, no test registered.
NewManager ==
    [ retirement_threshold |-> retirement_threshold,
      min_triggers |-> min_triggers_for_retirement,
      tests |-> << >> ]

\* No direct call of a pure function is under way.
NoProbe == [ fn |-> "" ]

Workers == { 1, 2 }

IdleWorker == [ pc |-> "idle", kind |-> "", file |-> AbsentFile, store |-> AbsentStore ]

Init ==
    /\ now = 0
    /\ ledgerFile = AbsentFile
    /\ exceptionStore = InitialStore
    /\ conc = [ w \in Workers |-> IdleWorker ]
    /\ probe = NoProbe
    /\ manager = NewManager

\* -------------------------------------------------------------- actions
\* DebtClearer.create_debt_from_incident
CreateDebtFromIncident ==
    \E inp \in CreateInputs :
        /\ Len(ledgerFile.entries) < MaxEntries
        /\ ledgerFile' = CreateDebt(ledgerFile, inp, now)
        /\ UNCHANGED << now, exceptionStore, conc, probe, manager >>

\* DebtClearer.mark_mitigated
MarkMitigatedCall ==
    \E c \in MitigateCalls :
        /\ ledgerFile' = MarkMitigated(ledgerFile, c[1], c[2], "regression_promotion", now)
        /\ UNCHANGED << now, exceptionStore, conc, probe, manager >>

\* The debt ids an operator may pass to mark_accepted; the last one is unknown.
AcceptIds(es) ==
    { es[i].debt_id : i \in 1..Len(es) } \cup { MakeDebtId(0, INC_9) }

\* DebtClearer.mark_accepted
MarkAcceptedCall ==
    \E id \in AcceptIds(ledgerFile.entries) :
        /\ ledgerFile' = MarkAccepted(ledgerFile, id, "risk-board", now + DayStep, now)
        /\ UNCHANGED << now, exceptionStore, conc, probe, manager >>

\* debt_aging.main, with or without --enforce
AgingMain ==
    \E enforce \in BOOLEAN :
        /\ ledgerFile' = AgingMainRun(ledgerFile, enforce, now).file
        /\ UNCHANGED << now, exceptionStore, conc, probe, manager >>

\* settle_alignment_debt.settle_debt; a save can only fail in a run that saves.
SettleDebtCall ==
    \E replay \in Replays, dry_run \in BOOLEAN, fault \in SettleFaults :
        LET s == SettleDebt(ledgerFile, exceptionStore, replay, dry_run, fault, now)
        IN /\ (dry_run \/ GetMitigatedPrinciples(replay) = {}) => fault = "none"
           /\ ledgerFile' = s.file
           /\ exceptionStore' = s.store
           /\ UNCHANGED << now, conc, probe, manager >>

\* The clock advances.
Tick ==
    /\ now + DayStep <= MaxDay
    /\ now' = now + DayStep
    /\ UNCHANGED << ledgerFile, exceptionStore, conc, probe, manager >>

Next ==
    \/ CreateDebtFromIncident
    \/ MarkMitigatedCall
    \/ MarkAcceptedCall
    \/ AgingMain
    \/ SettleDebtCall
    \/ Tick

Spec == Init /\ [][Next]_vars

\* ------------------------------------------------- concurrent processes
\* Two processes run one ledger-mutating call each against the same files.
\* Nothing in the code locks the files or versions them, so a call is two
\* steps that other processes may come between: it loads the documents, and
\* later computes on what it loaded and saves.
ConcKinds == { "create", "mark_mitigated", "mark_accepted", "enforce", "settle" }

\* The ledger the concurrent calls start from: two open entries made on day 0.
ConcStartFile == CreateDebt(CreateDebt(AbsentFile, ReportCritical, 0), ReportMedium, 0)

ReplayPass == CHOOSE r \in Replays : GetMitigatedPrinciples(r) # {}

\* One call computed on the documents it loaded: what it would write, and
\* whether it reaches its save of each file.
ComputeCall(kind, file, store, day) ==
    CASE kind = "create" ->
           [ file |-> CreateDebt(file, ReportMedium, day), store |-> store,
             saves_file |-> TRUE, saves_store |-> FALSE ]
      [] kind = "mark_mitigated" ->
           [ file |-> MarkMitigated(file, INC_1, { REG_X }, "regression_promotion", day),
             store |-> store,
             saves_file |-> MitigateTarget(file.entries, INC_1) # 0,
             saves_store |-> FALSE ]
      [] kind = "mark_accepted" ->
           [ file |-> MarkAccepted(file, MakeDebtId(0, INC_10), "risk-board",
                                   day + DayStep, day),
             store |-> store,
             saves_file |-> AcceptTarget(file.entries, MakeDebtId(0, INC_10)) # 0,
             saves_store |-> FALSE ]
      [] kind = "enforce" ->
           [ file |-> AgingMainRun(file, TRUE, day).file, store |-> store,
             saves_file |-> AgingMainRun(file, TRUE, day).updated > 0,
             saves_store |-> FALSE ]
      [] OTHER ->
           LET s == SettleDebt(file, store, ReplayPass, FALSE, "none", day)
           IN [ file |-> s.file, store |-> s.store,
                saves_file |-> TRUE, saves_store |-> TRUE ]

InitConc ==
    /\ now = MaxDay
    /\ ledgerFile = ConcStartFile
    /\ exceptionStore = InitialStore
    /\ conc = [ w \in Workers |-> IdleWorker ]
    /\ probe = NoProbe
    /\ manager = NewManager

\* load_debt_ledger / load_yaml at the head of the call
ConcLoad(w) ==
    /\ conc[w].pc = "idle"
    /\ \E kind \in ConcKinds :
          conc' = [ conc EXCEPT ![w] = [ pc |-> "loaded", kind |-> kind,
                                         file |-> ledgerFile, store |-> exceptionStore ] ]
    /\ UNCHANGED << now, ledgerFile, exceptionStore, probe, manager >>

\* the call's mutation of what it loaded, and its save_debt_ledger / save_yaml
ConcSave(w) ==
    /\ conc[w].pc = "loaded"
    /\ LET c == ComputeCall(conc[w].kind, conc[w].file, conc[w].store, now)
       IN /\ ledgerFile' = IF c.saves_file THEN c.file ELSE ledgerFile
          /\ exceptionStore' = IF c.saves_store THEN c.store ELSE exceptionStore
    /\ conc' = [ conc EXCEPT ![w] = [ IdleWorker EXCEPT !.pc = "done",
                                                        !.kind = conc[w].kind ] ]
    /\ UNCHANGED << now, probe, manager >>

NextConc == \E w \in Workers : ConcLoad(w) \/ ConcSave(w)

SpecConc == InitConc /\ [][NextConc]_vars

\* ------------------------------------------------- the sweep, day by day
\* The ledger debt_aging.main loads on day 0. The file belongs to the
\* regression suite, which writes entries too: the second entry is one of
\* its own, open and of high severity with blocks_release false. The others
\* are as create_debt_from_incident makes them, the last since accepted.
AgingStartFile ==
    LET made == << NewEntry(ReportCritical, 0),
                   [ NewEntry(ReportHigh, 0) EXCEPT !.blocks_release = FALSE ],
                   NewEntry(ReportMedium, 0),
                   NewEntry(ReportLow, 0) >>
        file == [ exists |-> TRUE, entries |-> made,
                  summary |-> RecalculateSummary(made, 0) ]
    IN MarkAccepted(file, MakeDebtId(0, INC_9), "risk-board", DayStep, 0)

InitAging ==
    /\ now = 0
    /\ ledgerFile = AgingStartFile
    /\ exceptionStore = InitialStore
    /\ conc = [ w \in Workers |-> IdleWorker ]
    /\ probe = NoProbe
    /\ manager = NewManager

\* A day passes.
TickOneDay ==
    /\ now < MaxAgeDay
    /\ now' = now + 1
    /\ UNCHANGED << ledgerFile, exceptionStore, conc, probe, manager >>

NextAging == AgingMain \/ TickOneDay

SpecAging == InitAging /\ [][NextAging]_vars

\* The same with the clock advancing and the sweep run again and again: a
\* day that can pass does pass, and a sweep that has something to enforce
\* is run.
SpecAgingFair == SpecAging /\ WF_vars(TickOneDay) /\ WF_vars(AgingMain)

\* ------------------------------------------- get_slo_status, called alone
\* The severities a call may name; "low" stands for every string that is
\* neither "critical" nor "high".
Severities == { "critical", "high", "medium", "low" }

\* The configs a call may pass: the defaults, a tight config, and one whose
\* thresholds are not in ascending order (AgingConfig validates nothing).
Configs ==
    { DefaultConfig,
      [ warning_days |-> 2, escalate_days |-> 4, block_days_critical |-> 6,
        block_days_high |-> 8, block_days_medium |-> 10 ],
      [ warning_days |-> 20, escalate_days |-> 10, block_days_critical |-> 5,
        block_days_high |-> 40, block_days_medium |-> 0 ] }

\* The ages a call may pass; -1 is an entry stamped later than the clock.
Ages == (-1)..MaxAge

InitSlo ==
    /\ now = 0
    /\ ledgerFile = AbsentFile
    /\ exceptionStore = AbsentStore
    /\ conc = [ w \in Workers |-> IdleWorker ]
    /\ probe \in { [ fn |-> "get_slo_status", age_days |-> a, severity |-> s,
                      config |-> c, out |-> << >> ] :
                    a \in Ages, s \in Severities, c \in Configs }
    /\ manager = NewManager

\* get_slo_status(age_days, severity, config) runs and returns.
GetSloStatusCall ==
    /\ probe.fn = "get_slo_status"
    /\ probe.out = << >>
    /\ probe' = [ probe EXCEPT
                    !.out = << GetSloStatus(probe.age_days, probe.severity, probe.config) >> ]
    /\ UNCHANGED << now, ledgerFile, exceptionStore, conc, manager >>

NextSlo == GetSloStatusCall

SpecSlo == InitSlo /\ [][NextSlo]_vars

\* ------------------------------------- the sweep over a damaged ledger
\* The ledger above with the created_at of one entry, or of none, replaced
\* by a string that does not parse.
DamagedStartFiles ==
    { [ AgingStartFile EXCEPT !.entries =
          [ i \in 1..Len(AgingStartFile.entries) |->
              IF i = k THEN [ AgingStartFile.entries[i] EXCEPT !.created_at = MalformedTimestamp ]
              ELSE AgingStartFile.entries[i] ] ] :
        k \in 0..Len(AgingStartFile.entries) }

InitDamaged ==
    /\ now = 0
    /\ ledgerFile \in DamagedStartFiles
    /\ exceptionStore = InitialStore
    /\ conc = [ w \in Workers |-> IdleWorker ]
    /\ probe = NoProbe
    /\ manager = NewManager

\* debt_aging.main, with or without --enforce, whatever the ledger holds
AgingMainAnyLedger ==
    \E enforce \in BOOLEAN :
        /\ ledgerFile' = AgingMainOutcome(ledgerFile, enforce, now).file
        /\ UNCHANGED << now, exceptionStore, conc, probe, manager >>

NextDamaged == AgingMainAnyLedger \/ TickOneDay

SpecDamaged == InitDamaged /\ [][NextDamaged]_vars

\* ------------------------------------------------ mitigation on its own
\* mark_mitigated for every incident id and every choice of evidence, on the
\* ledgers the lifecycle calls build.
MitigateIds == { INC_1, INC_10, INC_7, INC_9 }

EvidenceLists == SUBSET { REG_I7, REG_X }

InitMitigate ==
    /\ now = 0
    /\ ledgerFile = AbsentFile
    /\ exceptionStore = InitialStore
    /\ conc = [ w \in Workers |-> IdleWorker ]
    /\ probe = NoProbe
    /\ manager = NewManager

\* DebtClearer.mark_mitigated, any incident id and evidence
MarkMitigatedAny ==
    \E incident_id \in MitigateIds, evidence \in EvidenceLists :
        /\ ledgerFile' = MarkMitigated(ledgerFile, incident_id, evidence,
                                       "regression_promotion", now)
        /\ UNCHANGED << now, exceptionStore, conc, probe, manager >>

NextMitigate == CreateDebtFromIncident \/ MarkMitigatedAny \/ MarkAcceptedCall

SpecMitigate == InitMitigate /\ [][NextMitigate]_vars

\* --------------------------------------------- a ledger over its months
\* A ledger of a critical and a medium entry, as create_debt_from_incident
\* makes them on day 0, under every call that changes entries: on day 0, on
\* the day an acceptance made on day 0 expires, and after it.
LapseStartFile ==
    LET made == << NewEntry(ReportCritical, 0), NewEntry(ReportMedium, 0) >>
    IN [ exists |-> TRUE, entries |-> made,
         summary |-> RecalculateSummary(made, 0) ]

InitLapse ==
    /\ now = 0
    /\ ledgerFile = LapseStartFile
    /\ exceptionStore = InitialStore
    /\ conc = [ w \in Workers |-> IdleWorker ]
    /\ probe = NoProbe
    /\ manager = NewManager

\* The clock moves on to a later one of the two days.
TickLapse ==
    /\ now' \in { d \in { DayStep, MaxAgeDay } : d > now }
    /\ UNCHANGED << ledgerFile, exceptionStore, conc, probe, manager >>

NextLapse ==
    \/ MarkMitigatedCall
    \/ MarkAcceptedCall
    \/ AgingMain
    \/ SettleDebtCall
    \/ TickLapse

SpecLapse == InitLapse /\ [][NextLapse]_vars

\* ------------------------------------------------- settlement on its own
\* Settlements of every replay document above against the ledger the
\* lifecycle calls build and an exception store that may not exist yet.
InitSettle ==
    /\ now = 0
    /\ ledgerFile = AbsentFile
    /\ exceptionStore \in { InitialStore, AbsentStore }
    /\ conc = [ w \in Workers |-> IdleWorker ]
    /\ probe = NoProbe
    /\ manager = NewManager

\* settle_alignment_debt.settle_debt, any replay document
SettleDebtAny ==
    \E replay \in SettleReplays, dry_run \in BOOLEAN, fault \in SettleFaults :
        LET s == SettleDebt(ledgerFile, exceptionStore, replay, dry_run, fault, now)
        IN /\ (dry_run \/ GetMitigatedPrinciples(replay) = {}) => fault = "none"
           /\ ledgerFile' = s.file
           /\ exceptionStore' = s.store
           /\ UNCHANGED << now, conc, probe, manager >>

NextSettle ==
    \/ CreateDebtFromIncident
    \/ MarkAcceptedCall
    \/ SettleDebtAny

SpecSettle == InitSettle /\ [][NextSettle]_vars

\* ------------------------------------------------- a ledger that grows
\* Incidents of the three named severities keep being recorded, up to
\* MaxLedger entries, and mark_mitigated is called for INC_1 meanwhile.
InitLedger ==
    /\ now = 0
    /\ ledgerFile = AbsentFile
    /\ exceptionStore = InitialStore
    /\ conc = [ w \in Workers |-> IdleWorker ]
    /\ probe = NoProbe
    /\ manager = NewManager

\* DebtClearer.create_debt_from_incident
RecordIncident ==
    \E inp \in { ReportCritical, ReportHigh, ReportMedium } :
        /\ Len(ledgerFile.entries) < MaxLedger
        /\ ledgerFile' = CreateDebt(ledgerFile, inp, now)
        /\ UNCHANGED << now, exceptionStore, conc, probe, manager >>

\* DebtClearer.mark_mitigated("INC_1", [])
MitigateIncidentOne ==
    /\ ledgerFile' = MarkMitigated(ledgerFile, INC_1, {}, "regression_promotion", now)
    /\ UNCHANGED << now, exceptionStore, conc, probe, manager >>

NextLedger == RecordIncident \/ MitigateIncidentOne

SpecLedger == InitLedger /\ [][NextLedger]_vars

\* ------------------------------------------- compute_relevance on its own
\* The records compute_relevance is called with: created now, FutureDays
\* ahead, or with a created_at that does not parse; never triggered, last
\* triggered on day 90, or with a last_triggered that does not parse; a
\* trigger_count that is negative, zero or positive.
RelevanceTests ==
    { RegressionTest("T", c, src, lt, tc, sev) :
        c \in { Stamp(0), Stamp(FutureDays), MalformedStamp },
        lt \in { << >>, << Stamp(90) >>, << MalformedStamp >> },
        src \in { "incident", "manual", "unknown" },
        tc \in { -1, 0, 5 },
        sev \in { "critical", "low", "unknown" } }

InitRelevance ==
    /\ now = 0
    /\ ledgerFile = AbsentFile
    /\ exceptionStore = AbsentStore
    /\ conc = [ w \in Workers |-> IdleWorker ]
    /\ probe \in { [ fn |-> "compute_relevance", test |-> t, out |-> << >> ] :
                    t \in RelevanceTests }
    /\ manager = NewManager

\* compute_relevance(test) runs and returns; the record is called twice at most.
ComputeRelevanceCall ==
    /\ probe.fn = "compute_relevance"
    /\ Len(probe.out) < 2
    /\ probe' = [ probe EXCEPT !.out = Append(@, [ at |-> now,
                       value |-> ComputeRelevance(probe.test, now) ]) ]
    /\ UNCHANGED << now, ledgerFile, exceptionStore, conc, manager >>

\* datetime.now() moves on.
TickDecay ==
    /\ now + DecayStep <= MaxDecayDay
    /\ now' = now + DecayStep
    /\ UNCHANGED << ledgerFile, exceptionStore, conc, probe, manager >>

NextRelevance == ComputeRelevanceCall \/ TickDecay

SpecRelevance == InitRelevance /\ [][NextRelevance]_vars

\* ------------------------------------------------- the registry at work
\* The tests add_test is called with: two with good timestamps, one whose
\* created_at does not parse, one whose last_triggered does not parse, and
\* one that never triggered.
DecayPool ==
    { RegressionTest("T1", Stamp(0), "incident", << >>, 2, "critical"),
      RegressionTest("T2", Stamp(0), "manual", << Stamp(0) >>, 3, "low"),
      RegressionTest("T3", MalformedStamp, "manual", << >>, 0, "low"),
      RegressionTest("T4", Stamp(0), "manual", << MalformedStamp >>, 2, "low"),
      RegressionTest("T5", Stamp(0), "red_team", << >>, 0, "medium") }

\* RegressionDecayManager() and
\* RegressionDecayManager(retirement_threshold=0.5, min_triggers_for_retirement=2)
DecayManagers ==
    { NewManager,
      [ NewManager EXCEPT !.retirement_threshold = Micro \div 2, !.min_triggers = 2 ] }

\* The traffic_replay_fn arguments: None, and functions true for no test, for
\* T1, for T2, and for every test.
RevalidationSignals ==
    { << >>, << {} >>, << { "T1" } >>, << { "T2" } >>,
      << { t.test_id : t \in DecayPool } >> }

InitDecay ==
    /\ now = 0
    /\ ledgerFile = AbsentFile
    /\ exceptionStore = AbsentStore
    /\ conc = [ w \in Workers |-> IdleWorker ]
    /\ probe = NoProbe
    /\ manager \in DecayManagers

\* RegressionDecayManager.add_test, for a test_id not yet registered
AddTestCall ==
    \E t \in DecayPool :
        /\ Len(manager.tests) < MaxTests
        /\ \A i \in 1..Len(manager.tests) : manager.tests[i].test_id # t.test_id
        /\ manager' = [ manager EXCEPT !.tests = AddTest(@, t) ]
        /\ UNCHANGED << now, ledgerFile, exceptionStore, conc, probe >>

\* RegressionDecayManager.update_relevance_scores, also the whole effect of
\* get_retirement_candidates
UpdateRelevanceScoresCall ==
    /\ manager' = [ manager EXCEPT !.tests = UpdateRelevanceScores(@, now) ]
    /\ UNCHANGED << now, ledgerFile, exceptionStore, conc, probe >>

\* RegressionDecayManager.auto_retirement_policy
AutoRetirementPolicyCall ==
    /\ manager' = [ manager EXCEPT !.tests = AutoRetirementPolicy(manager, now).tests ]
    /\ UNCHANGED << now, ledgerFile, exceptionStore, conc, probe >>

\* RegressionDecayManager.quarterly_revalidation
QuarterlyRevalidationCall ==
    \E fn \in RevalidationSignals :
        /\ manager' = [ manager EXCEPT !.tests = QuarterlyRevalidation(@, fn).tests ]
        /\ UNCHANGED << now, ledgerFile, exceptionStore, conc, probe >>

NextDecay ==
    \/ AddTestCall
    \/ UpdateRelevanceScoresCall
    \/ AutoRetirementPolicyCall
    \/ QuarterlyRevalidationCall
    \/ TickDecay

SpecDecay == InitDecay /\ [][NextDecay]_vars

\* --------------------------------------- the registry with the defaults
\* Tests that triggered often, one less often, one with a created_at that
\* does not parse, registered with a RegressionDecayManager().
FrequentPool ==
    { RegressionTest("F1", Stamp(0), "manual", << >>, 5, "low"),
      RegressionTest("F2", Stamp(0), "incident", << Stamp(0) >>, 7, "critical"),
      RegressionTest("F3", Stamp(0), "red_team", << >>, 4, "medium"),
      RegressionTest("F4", MalformedStamp, "manual", << >>, 5, "low") }

InitDefaults ==
    /\ now = 0
    /\ ledgerFile = AbsentFile
    /\ exceptionStore = AbsentStore
    /\ conc = [ w \in Workers |-> IdleWorker ]
    /\ probe = NoProbe
    /\ manager = NewManager

\* RegressionDecayManager.add_test, for a test_id not yet registered
AddFrequentTest ==
    \E t \in FrequentPool :
        /\ Len(manager.tests) < MaxTests
        /\ \A i \in 1..Len(manager.tests) : manager.tests[i].test_id # t.test_id
        /\ manager' = [ manager EXCEPT !.tests = AddTest(@, t) ]
        /\ UNCHANGED << now, ledgerFile, exceptionStore, conc, probe >>

NextDefaults ==
    \/ AddFrequentTest
    \/ UpdateRelevanceScoresCall
    \/ AutoRetirementPolicyCall
    \/ TickDecay

SpecDefaults == InitDefaults /\ [][NextDefaults]_vars

\* ======================================================================
\* Properties
\* ======================================================================
Entries == ledgerFile.entries

Terminal == { "mitigated", "accepted" }

\* The sum of debt_amount over the entries that are neither mitigated nor
\* accepted, taken entry by entry.
RECURSIVE SumAt(_, _)
SumAt(es, idx) ==
    IF idx = {} THEN 0
    ELSE LET i == CHOOSE j \in idx : TRUE
         IN es[i].debt_amount + SumAt(es, idx \ { i })

ExpectedActiveDebt(es) ==
    SumAt(es, { i \in 1..Len(es) : es[i].mitigation_status \notin Terminal })

\* Every ledger a LifecycleManager call that mutates can persist from the
\* current one: create (any report), mark_mitigated and mark_accepted (any
\* arguments that find an entry).
LifecyclePosts ==
    { CreateDebt(ledgerFile, inp, now) : inp \in CreateInputs }
    \cup { MarkMitigated(ledgerFile, a[1], a[2], "regression_promotion", now) :
             a \in { b \in MitigateCalls : MitigateTarget(Entries, b[1]) # 0 } }
    \cup { MarkAccepted(ledgerFile, id, "risk-board", now + DayStep, now) :
             id \in { d \in AcceptIds(Entries) : AcceptTarget(Entries, d) # 0 } }

\* C1: after create_debt_from_incident, mark_mitigated or mark_accepted, from
\* any reachable ledger, the persisted summary.total_active_debt is exactly
\* the sum of debt_amount over the entries neither mitigated nor accepted.
C1_TotalActiveDebtExact ==
    \A post \in LifecyclePosts :
        /\ post.exists
        /\ post.summary.present
        /\ post.summary.total_active_debt = ExpectedActiveDebt(post.entries)

\* C1 witness: a persisted ledger with a mitigated or accepted entry beside an
\* open one, whose summary counts the open one alone.
C1_Witness ==
    /\ Len(Entries) = 2
    /\ Entries[1].mitigation_status \in Terminal
    /\ Entries[2].mitigation_status = "open"
    /\ ledgerFile.summary.total_active_debt = Entries[2].debt_amount
    /\ ExpectedActiveDebt(Entries) = Entries[2].debt_amount

\* C2: in every reachable ledger, an entry that is mitigated or accepted does
\* not block release.
C2_TerminalNeverBlocks ==
    \A i \in 1..Len(Entries) :
        Entries[i].mitigation_status \in Terminal => ~Entries[i].blocks_release

\* C2 witness: enforce has blocked an aged open entry while another entry,
\* just as old, is accepted or mitigated.
C2_Witness ==
    /\ Len(Entries) = 2
    /\ \E i, j \in 1..2 :
          /\ Entries[i].block_reason # << >>
          /\ Entries[i].blocks_release
          /\ Entries[j].mitigation_status \in Terminal
          /\ AgeDays(Entries[j].created_at, now) >= BlockThreshold(Entries[j].severity, DefaultConfig)

\* C3: when the exception-store write of a real settlement fails, no run ends
\* with the ledger showing entries mitigated by it, the exception store still
\* holding their exceptions, and the caller not told of the partial failure.
C3_SettlementAtomicOrReported ==
    \A replay \in Replays :
        LET P == GetMitigatedPrinciples(replay)
            s == SettleDebt(ledgerFile, exceptionStore, replay, FALSE, "exceptions", now)
            committed == \E i \in 1..Len(Entries) :
                            /\ Entries[i].principle \in P
                            /\ Entries[i].mitigation_status = "open"
                            /\ s.file.entries[i].mitigation_status = "mitigated"
            stale == \E k \in 1..Len(s.store.exceptions) :
                        s.store.exceptions[k].principle \in P
        IN P # {} => ~(committed /\ stale /\ s.ret.status # "partial_failure")

\* C5: mark_mitigated called twice with the same incident id and evidence
\* leaves the ledger as one call does.
C5_MarkMitigatedIdempotent ==
    \A c \in MitigateCalls :
        LET once == MarkMitigated(ledgerFile, c[1], c[2], "regression_promotion", now)
            twice == MarkMitigated(once, c[1], c[2], "regression_promotion", now)
        IN twice = once

\* The debt_status the data model gives a total (in 1/10000): BLOCK from 0.25,
\* WARN from 0.10.
ExpectedDebtStatus(total) ==
    IF total >= 2500 THEN "BLOCK" ELSE IF total >= 1000 THEN "WARN" ELSE "OK"

\* C6: a settlement that mitigates at least one entry persists a summary
\* recomputed from the entries.
C6_SettlementSummaryRecomputed ==
    \A replay \in Replays :
        LET d == UpdateDebtLedger(ledgerFile, GetMitigatedPrinciples(replay),
                                  replay.incident_id, replay.verification_run_id, now)
        IN d.updated > 0 =>
             /\ d.file.summary.present
             /\ d.file.summary.total_active_debt = ExpectedActiveDebt(d.file.entries)
             /\ d.file.summary.debt_status = ExpectedDebtStatus(ExpectedActiveDebt(d.file.entries))

\* C7: an entry leaves open only to mitigated or accepted, and a mitigated or
\* accepted entry never changes its mitigation_status again.
C7_StatusMonotonic ==
    [][ \A i \in 1..Len(ledgerFile.entries) :
          /\ ledgerFile.entries[i].mitigation_status \in Terminal =>
                ledgerFile'.entries[i].mitigation_status
                    = ledgerFile.entries[i].mitigation_status
          /\ ledgerFile.entries[i].mitigation_status = "open" =>
                ledgerFile'.entries[i].mitigation_status \in { "open" } \cup Terminal
      ]_vars

\* C8: an entry has mitigated_at set exactly when it is mitigated.
C8_MitigatedAtIffMitigated ==
    \A i \in 1..Len(Entries) :
        (Entries[i].mitigated_at # << >>) <=> (Entries[i].mitigation_status = "mitigated")

\* C9: no two entries of the ledger share a debt_id.
C9_DebtIdUnique ==
    \A i, j \in 1..Len(Entries) : i # j => Entries[i].debt_id # Entries[j].debt_id

\* C10 as stated: debt_amount > 0 only while the entry is neither mitigated
\* nor accepted.
C10_AmountPositiveOnlyWhileActive ==
    \A i \in 1..Len(Entries) :
        Entries[i].debt_amount > 0 => Entries[i].mitigation_status \notin Terminal

\* The weight the data model gives a severity (0.10 / 0.05 / 0.02).
SeverityWeight(severity) ==
    IF severity = "critical" THEN 1000 ELSE IF severity = "high" THEN 500 ELSE 200

\* C10 amended: debt_amount is never cleared. Every entry keeps the positive
\* weight of its severity in every mitigation_status; mitigated and accepted
\* entries are left out of the recomputed total, not zeroed.
C10_AmountKeptInEveryStatus ==
    /\ \A i \in 1..Len(Entries) :
          /\ Entries[i].debt_amount > 0
          /\ Entries[i].debt_amount = SeverityWeight(Entries[i].severity)
    /\ RecalculateSummary(Entries, now).total_active_debt = ExpectedActiveDebt(Entries)

\* C10 witness: a mitigated entry and an accepted entry, both with their
\* amount still on them.
C10_Witness ==
    /\ Len(Entries) = 2
    /\ Entries[1].mitigation_status = "mitigated"
    /\ Entries[2].mitigation_status = "accepted"
    /\ Entries[1].debt_amount > 0
    /\ Entries[2].debt_amount > 0

\* The persisted ledger after call k1 and then call k2, each run alone from
\* load to save.
SerialLedger(k1, k2) ==
    LET a == ComputeCall(k1, ConcStartFile, InitialStore, now)
        fa == IF a.saves_file THEN a.file ELSE ConcStartFile
        sa == IF a.saves_store THEN a.store ELSE InitialStore
        b == ComputeCall(k2, fa, sa, now)
    IN IF b.saves_file THEN b.file ELSE fa

\* C4: when two ledger-mutating calls interleave at their load and save
\* steps, the final persisted ledger holds the effects of both: it is the
\* ledger one of the two serial orders leaves.
C4_NoLostUpdate ==
    (\A w \in Workers : conc[w].pc = "done") =>
        \/ ledgerFile = SerialLedger(conc[1].kind, conc[2].kind)
        \/ ledgerFile = SerialLedger(conc[2].kind, conc[1].kind)

\* C11: debt entries are never deleted. Across every operation (create,
\* mark_mitigated, mark_accepted, enforce, settlement) the ledger keeps every
\* entry it had, at the same position and with the same debt_id.
C11_EntriesNeverDeleted ==
    [][ /\ Len(ledgerFile'.entries) >= Len(ledgerFile.entries)
        /\ \A i \in 1..Len(ledgerFile.entries) :
              ledgerFile'.entries[i].debt_id = ledgerFile.entries[i].debt_id
      ]_vars

\* C11 witness: two entries in the order they were created, the first since
\* mitigated by a settlement and the second accepted by mark_accepted.
C11_Witness ==
    /\ Len(Entries) = 2
    /\ Entries[1].debt_id = MakeDebtId(0, INC_1)
    /\ Entries[1].verified_in_run # << >>
    /\ Entries[2].debt_id = MakeDebtId(0, INC_10)
    /\ Entries[2].risk_acceptance # << >>

\* The block threshold AgingConfig gives a severity.
BlockDaysFor(severity) ==
    CASE severity = "critical" -> block_days_critical
      [] severity = "high" -> block_days_high
      [] OTHER -> block_days_medium

\* C12: after enforce_aging_blocks returns, every entry that is neither
\* mitigated nor accepted and whose age in days is at or above the block
\* threshold of its severity has blocks_release true.
C12_EnforceBlocksAgedEntries ==
    LET r == EnforceAgingBlocks(Entries, now)
    IN /\ Len(r.entries) = Len(Entries)
       /\ \A i \in 1..Len(Entries) :
             ( /\ r.entries[i].mitigation_status \notin Terminal
               /\ now - r.entries[i].created_at >= BlockDaysFor(r.entries[i].severity) )
             => r.entries[i].blocks_release

\* C12 witness: the persisted ledger after an enforcing run on day 60, which
\* blocked the high entry that was not blocking, while the medium entry is
\* still under its threshold and free.
C12_Witness ==
    /\ now = block_days_high
    /\ Entries[2].severity = "high"
    /\ Entries[2].mitigation_status = "open"
    /\ Entries[2].blocks_release
    /\ Entries[2].block_reason = << block_days_high >>
    /\ ~Entries[3].blocks_release

\* C13: enforce is idempotent. A second enforce_aging_blocks on the ledger a
\* first one produced, at the same clock, changes no entry and returns 0; an
\* entry that already has blocks_release set is neither counted nor rewritten.
C13_EnforceIdempotent ==
    LET r1 == EnforceAgingBlocks(Entries, now)
        r2 == EnforceAgingBlocks(r1.entries, now)
        m1 == AgingMainRun(ledgerFile, TRUE, now)
        m2 == AgingMainRun(m1.file, TRUE, now)
    IN /\ r2.updated = 0
       /\ r2.entries = r1.entries
       /\ \A i \in 1..Len(Entries) : Entries[i].blocks_release => r1.entries[i] = Entries[i]
       /\ r1.updated = Cardinality({ i \in 1..Len(Entries) : r1.entries[i] # Entries[i] })
       /\ m2.updated = 0
       /\ m2.file = m1.file

\* C13 witness: enforce blocked the high entry on day 60; on day 90, with the
\* medium entry now over its threshold too, a run updates that one alone.
C13_Witness ==
    /\ now = block_days_medium
    /\ Entries[2].block_reason = << block_days_high >>
    /\ Entries[2].blocks_release
    /\ ~Entries[3].blocks_release
    /\ EnforceAgingBlocks(Entries, now).updated = 1

\* The block threshold a config gives a severity.
ConfigBlockDays(severity, config) ==
    CASE severity = "critical" -> config.block_days_critical
      [] severity = "high" -> config.block_days_high
      [] OTHER -> config.block_days_medium

\* C14: for every age_days, severity and config, get_slo_status returns BLOCK
\* if age_days >= the severity's block threshold, otherwise ESCALATE if
\* age_days >= escalate_days, otherwise WARNING if age_days >= warning_days,
\* otherwise OK; days_until_block is block_threshold - age_days when not
\* blocked and 0 when blocked, so it is never negative.
C14_SloStatusFunction ==
    (probe.fn = "get_slo_status" /\ probe.out # << >>) =>
        LET age == probe.age_days
            cfg == probe.config
            threshold == ConfigBlockDays(probe.severity, cfg)
            out == probe.out[1]
        IN /\ out.status = ( IF age >= threshold THEN "block"
                              ELSE IF age >= cfg.escalate_days THEN "escalate"
                              ELSE IF age >= cfg.warning_days THEN "warning"
                              ELSE "ok" )
           /\ out.status = "block" => out.days_until_block = 0
           /\ out.status # "block" => out.days_until_block = threshold - age
           /\ out.days_until_block >= 0

\* C14 witness: a call for a high entry 30 days past its threshold under the
\* default config has returned BLOCK with days_until_block 0.
C14_Witness ==
    /\ probe.fn = "get_slo_status"
    /\ probe.out # << >>
    /\ probe.config = DefaultConfig
    /\ probe.severity = "high"
    /\ probe.age_days = block_days_high + escalate_days
    /\ probe.out[1] = [ status |-> "block", days_until_block |-> 0 ]

\* The principles a replay document reports with status pass.
PassingPrinciples(replay) ==
    { p \in { "C3", "C5" } :
        \E j \in 1..Len(replay.verified_mitigations) :
            /\ replay.verified_mitigations[j].principle = p
            /\ replay.verified_mitigations[j].status = "pass" }

\* C15: a settlement with a non-empty set P of passing principles leaves
\* every entry that was open with principle in P mitigated, not blocking, and
\* stamped with mitigated_by_incident, verified_in_run and mitigated_at;
\* debts_updated is the number of such entries; no exception with principle
\* in P remains in the store; exceptions_removed is the number removed.
C15_SettlementEffect ==
    \A replay \in SettleReplays :
        LET P == PassingPrinciples(replay)
            s == SettleDebt(ledgerFile, exceptionStore, replay, FALSE, "none", now)
            hit == { i \in 1..Len(Entries) :
                       Entries[i].mitigation_status = "open" /\ Entries[i].principle \in P }
            gone == { k \in 1..Len(exceptionStore.exceptions) :
                        exceptionStore.exceptions[k].principle \in P }
        IN P # {} =>
             /\ s.ret.status = "success"
             /\ Len(s.file.entries) = Len(Entries)
             /\ \A i \in hit :
                   /\ s.file.entries[i].mitigation_status = "mitigated"
                   /\ ~s.file.entries[i].blocks_release
                   /\ s.file.entries[i].mitigated_by_incident = << replay.incident_id >>
                   /\ s.file.entries[i].verified_in_run = << replay.verification_run_id >>
                   /\ s.file.entries[i].mitigated_at = << now >>
             /\ s.ret.debts_updated = Cardinality(hit)
             /\ \A k \in 1..Len(s.store.exceptions) : s.store.exceptions[k].principle \notin P
             /\ s.ret.exceptions_removed = Cardinality(gone)
             /\ s.ret.exceptions_removed
                    = Len(exceptionStore.exceptions) - Len(s.store.exceptions)

\* C15 witness: both stores as a settlement for C3 left them: the critical C3
\* entry mitigated and stamped with the run, the two C3 exceptions gone and
\* the C5 exception still there.
C15_Witness ==
    /\ Len(Entries) >= 1
    /\ Entries[1].principle = "C3"
    /\ Entries[1].mitigation_status = "mitigated"
    /\ Entries[1].verified_in_run = << "run-2" >>
    /\ Entries[1].mitigated_by_incident = << INC_1 >>
    /\ ~Entries[1].blocks_release
    /\ Len(exceptionStore.exceptions) = 1
    /\ exceptionStore.exceptions[1].principle = "C5"

\* The audit_log `after` is the audit_log `before` with n records appended.
AppendedBy(before, after, n) ==
    /\ Len(after) = Len(before) + n
    /\ SubSeq(after, 1, Len(before)) = before

C17_NoPassNoAction ==
    \A replay \in SettleReplays, dry_run \in BOOLEAN :
        LET s == SettleDebt(ledgerFile, exceptionStore, replay, dry_run, "none", now)
        IN (\A j \in 1..Len(replay.verified_mitigations) :
               replay.verified_mitigations[j].status # "pass")
           => /\ s.ret.status = "no_action"
              /\ s.file = ledgerFile
              /\ s.store.exceptions = exceptionStore.exceptions
              /\ s.store.audit_log = exceptionStore.audit_log
              /\ s.store = exceptionStore

\* C17 witness: an open C3 entry and C3 exceptions are persisted, and a replay
\* document lists C3 with a status other than pass.
C17_Witness ==
    /\ \E i \in 1..Len(Entries) :
          Entries[i].principle = "C3" /\ Entries[i].mitigation_status = "open"
    /\ \E k \in 1..Len(exceptionStore.exceptions) :
          exceptionStore.exceptions[k].principle = "C3"
    /\ \E replay \in SettleReplays :
          /\ \E j \in 1..Len(replay.verified_mitigations) :
                replay.verified_mitigations[j].principle = "C3"
          /\ PassingPrinciples(replay) = {}
          /\ SettleDebt(ledgerFile, exceptionStore, replay, FALSE, "none", now).ret.status
                = "no_action"

\* C18: a dry-run settle_debt returns the same mitigated_principles,
\* debts_updated and exceptions_removed as a real run on the same inputs, and
\* leaves the persisted ledger and exception store (audit_log included)
\* unchanged.
C18_DryRunSameSummaryNoWrite ==
    \A replay \in SettleReplays :
        LET dry == SettleDebt(ledgerFile, exceptionStore, replay, TRUE, "none", now)
            real == SettleDebt(ledgerFile, exceptionStore, replay, FALSE, "none", now)
        IN /\ dry.ret.status = real.ret.status
           /\ dry.ret.mitigated_principles = real.ret.mitigated_principles
           /\ dry.ret.debts_updated = real.ret.debts_updated
           /\ dry.ret.exceptions_removed = real.ret.exceptions_removed
           /\ dry.ret.mitigated_principles = PassingPrinciples(replay)
           /\ dry.file = ledgerFile
           /\ dry.store = exceptionStore

\* C18 witness: with an open C3 entry and the two C3 exceptions persisted, a
\* dry run reports one debt and two exceptions, which a real run would write.
C18_Witness ==
    \E replay \in SettleReplays :
        LET dry == SettleDebt(ledgerFile, exceptionStore, replay, TRUE, "none", now)
            real == SettleDebt(ledgerFile, exceptionStore, replay, FALSE, "none", now)
        IN /\ dry.ret.dry_run
           /\ dry.ret.debts_updated = 1
           /\ dry.ret.exceptions_removed = 2
           /\ real.file # ledgerFile
           /\ real.store # exceptionStore

\* An entry references an incident id when the id occurs in its debt_id or in
\* one of its regression test ids.
References(e, incident_id) ==
    \/ IsSubstr(incident_id, e.debt_id)
    \/ \E t \in e.regression_tests : IsSubstr(incident_id, t)

\* C19: mark_mitigated returns the empty not-found result and leaves the
\* persisted ledger, entries and summary, unchanged whenever no entry
\* references the incident id or every entry that references it is already
\* mitigated.
C19_MarkMitigatedNotFound ==
    \A c \in MitigateCalls :
        (\A i \in 1..Len(Entries) :
            References(Entries[i], c[1]) => Entries[i].mitigation_status = "mitigated")
        => \A post \in { MarkMitigated(ledgerFile, c[1], c[2], "regression_promotion", now) } :
              /\ MarkMitigatedReturn(ledgerFile, c[1], c[2], "regression_promotion", now) = << >>
              /\ post.entries = Entries
              /\ post.summary = ledgerFile.summary
              /\ post = ledgerFile

\* C19 witness: the one entry that references INC_7 (through its evidence) was
\* mitigated by mark_mitigated on an earlier day, nothing references INC_9,
\* and a call for either finds nothing to do.
C19_Witness ==
    /\ Len(Entries) = 1
    /\ References(Entries[1], INC_7)
    /\ ~References(Entries[1], INC_9)
    /\ Entries[1].mitigated_by = << "regression_promotion" >>
    /\ Entries[1].mitigated_at = << 0 >>
    /\ now = MaxDay
    /\ MarkMitigatedReturn(ledgerFile, INC_7, {}, "regression_promotion", now) = << >>
    /\ MarkMitigatedReturn(ledgerFile, INC_9, { REG_X }, "regression_promotion", now) = << >>

\* C20: mark_accepted on an existing debt_id sets that entry's
\* mitigation_status to accepted, clears blocks_release, attaches
\* risk_acceptance, leaves its debt_amount unchanged and leaves it out of the
\* recomputed total_active_debt; on an unknown debt_id it returns the empty
\* not-found result and leaves the persisted ledger unchanged.
C20_MarkAcceptedEffect ==
    \A id \in AcceptIds(Entries) :
      \A post \in { MarkAccepted(ledgerFile, id, "risk-board", now + DayStep, now) },
         ret \in { MarkAcceptedReturn(ledgerFile, id, "risk-board", now + DayStep, now) } :
        LET idx == { i \in 1..Len(Entries) : Entries[i].debt_id = id }
        IN IF idx = {}
           THEN ret = << >> /\ post = ledgerFile
           ELSE LET k == CHOOSE i \in idx : \A j \in idx : i <= j
                    others == { i \in 1..Len(Entries) :
                                  i # k /\ Entries[i].mitigation_status \notin Terminal }
                IN /\ Len(post.entries) = Len(Entries)
                   /\ post.entries[k].mitigation_status = "accepted"
                   /\ ~post.entries[k].blocks_release
                   /\ post.entries[k].risk_acceptance
                         = << [ approved_by |-> "risk-board", approved_at |-> now,
                                expires |-> now + DayStep ] >>
                   /\ post.entries[k].debt_amount = Entries[k].debt_amount
                   /\ post.entries[k].debt_amount > 0
                   /\ post.summary.total_active_debt = SumAt(Entries, others)
                   /\ \A i \in 1..Len(Entries) : i # k => post.entries[i] = Entries[i]
                   /\ ret = << post.entries[k] >>

\* C20 witness: the critical entry, which blocked release as created, is
\* accepted with its risk acceptance attached and its amount still on it,
\* and the persisted total counts the open medium entry alone.
C20_Witness ==
    /\ Len(Entries) = 2
    /\ Entries[1].severity = "critical"
    /\ Entries[1].mitigation_status = "accepted"
    /\ Entries[1].risk_acceptance # << >>
    /\ ~Entries[1].blocks_release
    /\ Entries[1].debt_amount = SeverityWeight("critical")
    /\ Entries[2].mitigation_status = "open"
    /\ ledgerFile.summary.total_active_debt = Entries[2].debt_amount
    /\ AcceptTarget(Entries, MakeDebtId(0, INC_9)) = 0

\* C21: create_debt_from_incident appends exactly one entry, with
\* mitigation_status open, blocks_release true exactly when the severity is
\* critical or high, and debt_amount 0.10 / 0.05 / 0.02 for critical / high /
\* medium; every entry that was there is unchanged.
C21_CreateAppendsOneEntry ==
    \A inp \in AllReports :
      \A post \in { CreateDebt(ledgerFile, inp, now) } :
        /\ Len(post.entries) = Len(Entries) + 1
        /\ SubSeq(post.entries, 1, Len(Entries)) = Entries
        /\ LET e == post.entries[Len(post.entries)]
           IN /\ e.severity = inp.severity
              /\ e.source_incident = inp.incident_id
              /\ e.mitigation_status = "open"
              /\ e.blocks_release <=> inp.severity \in { "critical", "high" }
              /\ inp.severity = "critical" => e.debt_amount = 1000
              /\ inp.severity = "high" => e.debt_amount = 500
              /\ inp.severity = "medium" => e.debt_amount = 200

\* C21 witness: a mitigated entry followed by a critical, a high and a medium
\* entry as create_debt_from_incident made them.
C21_Witness ==
    /\ Len(Entries) = 4
    /\ Entries[1].mitigation_status = "mitigated"
    /\ Entries[2].severity = "critical" /\ Entries[2].blocks_release
    /\ Entries[2].debt_amount = 1000 /\ Entries[2].mitigation_status = "open"
    /\ Entries[3].severity = "high" /\ Entries[3].blocks_release
    /\ Entries[3].debt_amount = 500 /\ Entries[3].mitigation_status = "open"
    /\ Entries[4].severity = "medium" /\ ~Entries[4].blocks_release
    /\ Entries[4].debt_amount = 200 /\ Entries[4].mitigation_status = "open"

\* C22: after every lifecycle mutation the persisted summary.debt_status is
\* BLOCK exactly when total_active_debt >= 0.25, WARN exactly when
\* 0.10 <= total_active_debt < 0.25, and OK otherwise.
C22_DebtStatusMatchesTotal ==
    ledgerFile.summary.present =>
        ledgerFile.summary.debt_status
            = ExpectedDebtStatus(ledgerFile.summary.total_active_debt)

\* C23: the exit code of the aging command is 2 when any active entry has
\* SLO status BLOCK, 1 when none is BLOCK but some entry is WARNING or
\* ESCALATE, and 0 only when no active entry is WARNING, ESCALATE or BLOCK.
SloStatuses(es, day) ==
    LET aging == AnalyzeDebtAging(es, day)
    IN { aging[i].slo_status : i \in 1..Len(aging) }

C23_ExitCodeGate ==
    \A enforce \in BOOLEAN :
      \A code \in { AgingMainRun(ledgerFile, enforce, now).exit_code } :
        LET seen == SloStatuses(Entries, now)
        IN /\ "block" \in seen => code = 2
           /\ "block" \notin seen /\ seen \cap { "warning", "escalate" } # {} => code = 1
           /\ seen \cap { "warning", "escalate", "block" } = {} => code = 0

\* C24: for a fixed test record, compute_relevance is non-increasing as the
\* current time advances: of two calls, the later one returns no more than
\* the earlier one.
C24_RelevanceNonIncreasing ==
    probe.fn = "compute_relevance" =>
        \A i, j \in 1..Len(probe.out) :
            (i <= j /\ probe.out[i].at <= probe.out[j].at)
                => probe.out[j].value <= probe.out[i].value

\* C24 witness: a record created on day 0 and never triggered scored 1.0 on
\* day 0 and less than 0.1 on the last day.
C24_Witness ==
    /\ probe.fn = "compute_relevance"
    /\ probe.test.created_at = Stamp(0)
    /\ probe.test.last_triggered = << >>
    /\ Len(probe.out) = 2
    /\ probe.out[1].at = 0 /\ probe.out[1].value = Micro
    /\ probe.out[2].at > 4 * half_life_days /\ probe.out[2].value < Micro \div 10

\* C25: for every test record, of any severity, source, reference date and
\* integer trigger_count, the value compute_relevance returns lies in [0, 1].
C25_RelevanceInUnitInterval ==
    probe.fn = "compute_relevance" =>
        \A i \in 1..Len(probe.out) :
            probe.out[i].value >= 0 /\ probe.out[i].value <= Micro

\* C26: update_relevance_scores over a registry holding records with
\* unparseable timestamps completes: every non-retired record is scored, and
\* a record whose reference date does not parse is scored as if its age were
\* 0 days; retired records keep their score.
ReferenceDate(test) ==
    IF test.last_triggered # << >> THEN test.last_triggered[1] ELSE test.created_at

C26_MalformedTimestampScoredAsNew ==
    \A post \in { UpdateRelevanceScores(manager.tests, now) } :
        /\ Len(post) = Len(manager.tests)
        /\ \A i \in 1..Len(post) :
            LET t == manager.tests[i]
            IN IF t.retired_at # << >> THEN post[i] = t
               ELSE /\ post[i] = [ t EXCEPT !.relevance_score = post[i].relevance_score ]
                    /\ post[i].relevance_score = ComputeRelevance(t, now)
                    /\ ~ReferenceDate(t).iso =>
                           post[i].relevance_score
                             = ComputeRelevance([ t EXCEPT !.created_at = Stamp(now),
                                                           !.last_triggered = << >> ], now)

\* C26 witness: 270 days on, the records whose created_at / last_triggered do
\* not parse hold the scores of new records, 0.72 and 0.92, beside a record
\* that has decayed.
C26_Witness ==
    /\ now >= 3 * half_life_days
    /\ Len(manager.tests) = 3
    /\ manager.tests[1].test_id = "T3" /\ manager.tests[1].relevance_score = 720000
    /\ manager.tests[2].test_id = "T4" /\ manager.tests[2].relevance_score = 920000
    /\ manager.tests[3].test_id = "T2" /\ manager.tests[3].relevance_score < Micro \div 2

\* The test_ids of a list of tests.
TestIds(ts) == { ts[i].test_id : i \in 1..Len(ts) }

\* The list holds, once each and in ascending order of their freshly
\* recomputed relevance, the tests of the registry whose index is in wanted.
IsAscendingListOf(list, wanted) ==
    /\ TestIds(list) = { manager.tests[i].test_id : i \in wanted }
    /\ Len(list) = Cardinality(wanted)
    /\ \A k \in 1..Len(list) :
          \E i \in wanted :
              list[k] = [ manager.tests[i] EXCEPT
                            !.relevance_score = ComputeRelevance(manager.tests[i], now) ]
    /\ \A k, l \in 1..Len(list) :
          k < l => list[k].relevance_score <= list[l].relevance_score

\* C27 as stated: retirement_candidates returns exactly the non-retired
\* records whose freshly recomputed relevance is below the retirement
\* threshold and whose trigger_count is above the minimum trigger count,
\* ordered by ascending relevance.
C27_CandidatesAboveMinimum ==
    IsAscendingListOf(
        GetRetirementCandidates(manager, now).candidates,
        { i \in 1..Len(manager.tests) :
            /\ manager.tests[i].retired_at = << >>
            /\ ComputeRelevance(manager.tests[i], now) < manager.retirement_threshold
            /\ manager.tests[i].trigger_count > manager.min_triggers })

\* C27 amended: the same, with a trigger_count of at least the minimum
\* trigger count.
C27_CandidatesAtLeastMinimum ==
    IsAscendingListOf(
        GetRetirementCandidates(manager, now).candidates,
        { i \in 1..Len(manager.tests) :
            /\ manager.tests[i].retired_at = << >>
            /\ ComputeRelevance(manager.tests[i], now) < manager.retirement_threshold
            /\ manager.tests[i].trigger_count >= manager.min_triggers })

\* C27 witness: with threshold 0.5 and minimum 2, T1 (2 triggers), T5 (none)
\* and T2 (3 triggers) are registered in this order and have decayed; the
\* candidates are T2 and then T1.
C27_Witness ==
    /\ manager.min_triggers = 2
    /\ Len(manager.tests) = 3
    /\ manager.tests[1].test_id = "T1"
    /\ manager.tests[2].test_id = "T5"
    /\ manager.tests[3].test_id = "T2"
    /\ \A i \in 1..3 : manager.tests[i].retired_at = << >>
    /\ LET c == GetRetirementCandidates(manager, now).candidates
       IN /\ Len(c) = 2
          /\ c[1].test_id = "T2" /\ c[2].test_id = "T1"
          /\ c[1].relevance_score < c[2].relevance_score
          /\ ComputeRelevance(manager.tests[2], now) < manager.retirement_threshold

\* C28: auto_retirement_policy retires every retirement candidate and nothing
\* else: each candidate gets retired_at and a retirement_reason, every other
\* record is unchanged apart from its recomputed score, and the
\* retirement candidates are empty immediately afterwards.
C28_AutoRetireExactlyCandidates ==
    \A c \in { GetRetirementCandidates(manager, now) } :
      \A post \in { AutoRetirementPolicy(manager, now).tests } :
        /\ Len(post) = Len(manager.tests)
        /\ \A i \in 1..Len(post) :
              IF manager.tests[i].test_id \in TestIds(c.candidates)
              THEN /\ post[i].retired_at # << >>
                   /\ post[i].retirement_reason # << >>
                   /\ post[i].test_id = manager.tests[i].test_id
              ELSE post[i] = UpdateRelevanceScores(manager.tests, now)[i]
        /\ GetRetirementCandidates([ manager EXCEPT !.tests = post ], now).candidates = << >>

\* C28 witness: the policy has retired T2 and T1 on the same day and left T5,
\* which never triggered, in service.
C28_Witness ==
    /\ Len(manager.tests) = 3
    /\ manager.tests[1].test_id = "T1"
    /\ manager.tests[2].test_id = "T5"
    /\ manager.tests[3].test_id = "T2"
    /\ manager.tests[1].retired_at = << now >>
    /\ manager.tests[1].retirement_reason = << "low_relevance" >>
    /\ manager.tests[3].retired_at = << now >>
    /\ manager.tests[2].retired_at = << >>
    /\ manager.tests[2].relevance_score < manager.retirement_threshold

\* C29: quarterly_revalidation reactivates exactly the retired records for
\* which the traffic-replay signal returns true: each gets retired_at and
\* retirement_reason cleared and relevance_score 0.5; every other record, and
\* every record when no function is passed, is unchanged.
C29_RevalidationReactivatesOnSignal ==
    \A fn \in RevalidationSignals :
      \A post \in { QuarterlyRevalidation(manager.tests, fn).tests } :
        /\ Len(post) = Len(manager.tests)
        /\ \A i \in 1..Len(post) :
              LET t == manager.tests[i]
              IN IF /\ t.retired_at # << >>
                    /\ fn # << >>
                    /\ t.test_id \in fn[1]
                 THEN post[i] = [ t EXCEPT !.retired_at = << >>,
                                           !.retirement_reason = << >>,
                                           !.relevance_score = Micro \div 2 ]
                 ELSE post[i] = t

\* C29 witness: of the retired T1 and T2, T1 has been reactivated with score
\* 0.5 and T2 is still retired.
C29_Witness ==
    /\ Len(manager.tests) >= 2
    /\ \E i, j \in 1..Len(manager.tests) :
          /\ manager.tests[i].test_id = "T1"
          /\ manager.tests[i].retired_at = << >>
          /\ manager.tests[i].retirement_reason = << >>
          /\ manager.tests[i].relevance_score = Micro \div 2
          /\ manager.tests[j].test_id = "T2"
          /\ manager.tests[j].retired_at # << >>

\* C30: an aging sweep (analyze_debt_aging or enforce_aging_blocks) over a
\* ledger holding an active entry with an unparseable created_at does not
\* abort: that entry is treated with age 0, and every other entry is still
\* analyzed and enforced.
C30_SweepToleratesMalformedTimestamp ==
    \A a \in { AnalyzeSweep(Entries, now) } :
      \A f \in { EnforceSweep(Entries, now) } :
        LET active == SelectSeq(Entries, LAMBDA e : ~AgingSkips(e))
        IN /\ ~a.raised
           /\ ~f.raised
           /\ Len(a.aging) = Len(active)
           /\ \A i \in 1..Len(active) :
                 a.aging[i].age_days
                   = IF ParseTimestamp(active[i].created_at) = << >> THEN 0
                     ELSE now - active[i].created_at
           /\ \A i \in 1..Len(Entries) :
                 ParseTimestamp(Entries[i].created_at) # << >>
                     => f.entries[i] = EnforceEntry(Entries[i], now)

\* C31: create_debt_from_incident called with a missing or unrecognized
\* severity is rejected and leaves the persisted ledger unchanged; no entry
\* with an invalid severity is appended.
C31_InvalidSeverityRejected ==
    \A inp \in { ReportUnrecognized, ReportNoSeverity } :
      \A post \in { CreateDebt(ledgerFile, inp, now) } :
        /\ post = ledgerFile
        /\ \A i \in 1..Len(post.entries) :
              post.entries[i].severity \in { "critical", "high", "medium", "low" }

\* The place of an SLO status in the order OK < WARNING < ESCALATE < BLOCK.
SloRank(status) ==
    CASE status = "ok" -> 0
      [] status = "warning" -> 1
      [] status = "escalate" -> 2
      [] status = "block" -> 3

\* The SLO status of an entry on a day.
SloStatusOn(e, day) == GetSloStatus(AgeDays(e.created_at, day), e.severity, DefaultConfig).status

\* C32: with time advancing and enforce_aging_blocks run again and again,
\* every entry that stays unmitigated and unaccepted eventually has
\* blocks_release true, and along the way its SLO status never moves
\* backwards in the order OK < WARNING < ESCALATE < BLOCK.
C32_AgingEventuallyBlocks ==
    /\ \A i \in 1..Len(AgingStartFile.entries) :
          (~AgingSkips(Entries[i])) ~> (AgingSkips(Entries[i]) \/ Entries[i].blocks_release)
    /\ [][\A i \in 1..Len(AgingStartFile.entries) :
            SloRank(SloStatusOn(Entries[i], now')) >= SloRank(SloStatusOn(Entries[i], now))]_vars

\* C32 witness: the medium entry, created not blocking, has reached its 90
\* days and the sweep has set its blocks_release, as it did for the high
\* entry before.
C32_Witness ==
    /\ now >= block_days_medium
    /\ Entries[3].severity = "medium"
    /\ Entries[3].mitigation_status = "open"
    /\ Entries[3].blocks_release
    /\ Entries[3].block_reason # << >>
    /\ Entries[2].blocks_release
    /\ SloStatusOn(Entries[3], now) = "block"

\* C33: mark_mitigated(incident X) mutates at most one entry, and that entry
\* was created for incident X: it never changes an entry created for another
\* incident Y, also when X is a substring of Y's id or of one of Y's evidence
\* test ids.
C33_MitigatesOnlyOwnIncident ==
    \A incident_id \in MitigateIds, evidence \in EvidenceLists :
      \A post \in { MarkMitigated(ledgerFile, incident_id, evidence,
                                   "regression_promotion", now) } :
        LET changed == { i \in 1..Len(Entries) : post.entries[i] # Entries[i] }
        IN /\ Len(post.entries) = Len(Entries)
           /\ Cardinality(changed) <= 1
           /\ \A i \in changed : Entries[i].source_incident = incident_id

\* C39: mark_mitigated only accumulates evidence: the regression-test ids of
\* the entry it updates are afterwards the union of the ids it had and the
\* ids supplied, none removed; ids already present change nothing in the
\* set; no other entry's ids change.
C39_EvidenceAccumulates ==
    \A incident_id \in MitigateIds, evidence \in EvidenceLists :
      \A post \in { MarkMitigated(ledgerFile, incident_id, evidence,
                                   "regression_promotion", now) } :
        /\ Len(post.entries) = Len(Entries)
        /\ \A i \in 1..Len(Entries) :
              LET before == Entries[i].regression_tests
                  after == post.entries[i].regression_tests
              IN /\ before \subseteq after
                 /\ IF post.entries[i].mitigated_at # Entries[i].mitigated_at
                         \/ post.entries[i].mitigation_status # Entries[i].mitigation_status
                    THEN after = before \cup evidence
                    ELSE after = before
                 /\ evidence \subseteq before => after = before

\* C39 witness: the entry of INC_10, created with evidence R-I7, has been
\* mitigated with evidence R-X and holds both ids.
C39_Witness ==
    \E i \in 1..Len(Entries) :
        /\ Entries[i].source_incident = INC_10
        /\ Entries[i].mitigation_status = "mitigated"
        /\ Entries[i].regression_tests = { REG_I7, REG_X }

\* C34: with the default parameters (retirement_threshold 0.1,
\* min_triggers_for_retirement 5) every record with trigger_count >= 5 has
\* recomputed relevance >= 0.3, so get_retirement_candidates is empty and
\* auto_retirement_policy retires nothing, however old the tests are.
C34_DefaultsNeverRetire ==
    /\ \A i \in 1..Len(manager.tests) :
          /\ manager.tests[i].retired_at = << >>
          /\ manager.tests[i].trigger_count >= 5
                => ComputeRelevance(manager.tests[i], now) >= 3 * (Micro \div 10)
    /\ GetRetirementCandidates(manager, now).candidates = << >>
    /\ \A post \in { AutoRetirementPolicy(manager, now) } :
          /\ post.actions = << >>
          /\ post.tests = UpdateRelevanceScores(manager.tests, now)

\* C34 witness: more than four half lives on, the test with 5 triggers has
\* been rescored to less than 0.35, and it and the test with 4 triggers are
\* in service.
C34_Witness ==
    /\ now >= 4 * half_life_days
    /\ manager.retirement_threshold = retirement_threshold
    /\ manager.min_triggers = min_triggers_for_retirement
    /\ \E i, j \in 1..Len(manager.tests) :
          /\ manager.tests[i].test_id = "F1"
          /\ manager.tests[i].trigger_count = 5
          /\ manager.tests[i].relevance_score < 35 * (Micro \div 100)
          /\ manager.tests[i].retired_at = << >>
          /\ manager.tests[j].test_id = "F3"
          /\ manager.tests[j].trigger_count = 4
          /\ manager.tests[j].retired_at = << >>

\* C35: settlement is idempotent: a second settle_debt with the same replay
\* result on the stores the first run produced reports debts_updated = 0 and
\* exceptions_removed = 0, appends no further audit_log record and leaves
\* every ledger entry and every exception unchanged.
C35_SettlementIdempotent ==
    \A replay \in SettleReplays :
      \A first \in { SettleDebt(ledgerFile, exceptionStore, replay, FALSE, "none", now) } :
        \A dry_run \in BOOLEAN, later \in { now, now + 1 } :
          \A second \in { SettleDebt(first.file, first.store, replay, dry_run, "none", later) } :
            /\ second.ret.debts_updated = 0
            /\ second.ret.exceptions_removed = 0
            /\ second.store.audit_log = first.store.audit_log
            /\ second.file.entries = first.file.entries
            /\ second.store.exceptions = first.store.exceptions

\* C35 witness: both stores are as the settlement of run-2 left them, with
\* its audit record, and that settlement run again finds nothing to do.
C35_Witness ==
    /\ \E i \in 1..Len(Entries) : Entries[i].verified_in_run = << "run-2" >>
    /\ Len(exceptionStore.audit_log) = 1
    /\ exceptionStore.audit_log[1].principles = { "C3" }
    /\ \E replay \in SettleReplays :
          /\ replay.verification_run_id = "run-2"
          /\ SettleDebt(ledgerFile, exceptionStore, replay, FALSE, "none", now).ret
                = SettleReturn("success", { "C3" }, 0, 0, FALSE)

\* C36: settlement clears no debt without a verified replay pass: it leaves
\* unchanged every ledger entry whose principle is not among the passing
\* principles or whose mitigation_status is not open, and it keeps, in order,
\* every policy exception whose principle is not among them.
C36_SettlementFrame ==
    \A replay \in SettleReplays :
      \A s \in { SettleDebt(ledgerFile, exceptionStore, replay, FALSE, "none", now) } :
        LET P == PassingPrinciples(replay)
        IN /\ Len(s.file.entries) = Len(Entries)
           /\ \A i \in 1..Len(Entries) :
                 (Entries[i].principle \notin P \/ Entries[i].mitigation_status # "open")
                     => s.file.entries[i] = Entries[i]
           /\ s.store.exceptions
                 = SelectSeq(exceptionStore.exceptions, LAMBDA x : x.principle \notin P)

\* C36 witness: a settlement for C5 has mitigated the C5 entry and removed
\* the C5 exception; the open C3 entry beside it and the two C3 exceptions
\* are as they were.
C36_Witness ==
    /\ Len(Entries) = 2
    /\ Entries[1].principle = "C3" /\ Entries[1].mitigation_status = "open"
    /\ Entries[1].blocks_release
    /\ Entries[2].principle = "C5" /\ Entries[2].mitigation_status = "mitigated"
    /\ Entries[2].verified_in_run = << "run-4" >>
    /\ Len(exceptionStore.exceptions) = 2
    /\ exceptionStore.exceptions[1].id = "EX-1"
    /\ exceptionStore.exceptions[2].id = "EX-3"

\* C37: aging never unblocks: analyze_debt_aging and enforce_aging_blocks never
\* change blocks_release from true to false and never change
\* mitigation_status; an entry's blocks_release goes from true to false only
\* in a mark_mitigated, mark_accepted or settlement step that leaves the
\* entry mitigated or accepted.
C37_AgingNeverUnblocks ==
    [][ /\ AgingMain =>
              /\ Len(ledgerFile'.entries) = Len(ledgerFile.entries)
              /\ \A i \in 1..Len(ledgerFile.entries) :
                    /\ ledgerFile.entries[i].blocks_release
                          => ledgerFile'.entries[i].blocks_release
                    /\ ledgerFile'.entries[i].mitigation_status
                          = ledgerFile.entries[i].mitigation_status
        /\ \A i \in 1..Len(ledgerFile.entries) :
              (ledgerFile.entries[i].blocks_release
                 /\ ~ledgerFile'.entries[i].blocks_release)
                => /\ MarkMitigatedCall \/ MarkAcceptedCall \/ SettleDebtCall
                   /\ ledgerFile.entries[i].mitigation_status = "open"
                   /\ ledgerFile'.entries[i].mitigation_status \in Terminal
      ]_vars

\* C37 witness: the sweep has blocked the medium entry at 90 days, and the
\* critical entry, which blocked from its creation, is mitigated and no
\* longer blocks.
C37_Witness ==
    /\ Len(Entries) = 2
    /\ Entries[2].severity = "medium"
    /\ Entries[2].block_reason # << >>
    /\ Entries[2].blocks_release
    /\ Entries[2].mitigation_status = "open"
    /\ Entries[1].severity = "critical"
    /\ Entries[1].mitigation_status = "mitigated"
    /\ ~Entries[1].blocks_release

====
